---- MODULE Spec2Model ----
(***************************************************************************)
(* Package passlock of saylorsolutions/gocryptx: the MultiLocker and       *)
(* WriteMultiLocker of pkg/passlock/multilocker.go over the KeyGenerator   *)
(* and the Lock/Unlock primitives.                                         *)
(*                                                                         *)
(* Byte strings (Passphrase, Plaintext) are sequences of naturals.  The    *)
(* external primitives are modelled as ideal ones: scrypt.Key is an        *)
(* injective function of (passphrase, salt, settings); an AES-GCM box      *)
(* opens under exactly the key that sealed it; crypto/rand draws are       *)
(* nondeterministic choices from Salts.  The nonce of a box is not         *)
(* modelled: Unlock takes it from the box it opens and nothing else reads  *)
(* it.                                                                     *)
(*                                                                         *)
(* The modelled object is a WriteMultiLocker: it embeds *MultiLocker, so   *)
(* it has every MultiLocker method plus SurrogateLock.                     *)
(***************************************************************************)
EXTENDS Naturals, Integers, Sequences, FiniteSets, TLC

VARIABLES
    surKeys,    \* MultiLocker.surKeys: map id -> wrapped base passphrase
    payload,    \* MultiLocker.payload
    basePass,   \* MultiLocker.basePass (<<>> is nil: update mode disabled)
    keyGen,     \* MultiLocker.keyGen (NilGen is the nil pointer)
    fresh,      \* the instance came from ReadMultiLocker and EnableUpdate has not succeeded on it since
    last,       \* the last call: its name, the error it returned, and what held when it was made
    calls,      \* the calls of two goroutines sharing the instance: where each one is, its arguments, its error
    probe       \* an input handed to a function of the package on its own (a byte string of a
                \* given length, a list of options, a passphrase and a plaintext), and what came of it

vars == <<surKeys, payload, basePass, keyGen, fresh, last, calls, probe>>

\* what the methods of one MultiLocker used by one goroutine never touch
others == <<calls, probe>>

----------------------------------------------------------------------------
(* Bounds of the model *)

\* crypto/rand salts are drawn from 1..MaxSalt
MaxSalt == 2

Salts == 1..MaxSalt

\* the passphrases callers present; <<>> is the empty passphrase
Passphrases == {<<>>, <<1>>, <<2>>}
\* the plaintexts callers lock
Plaintexts == {<<7>>, <<8>>}

----------------------------------------------------------------------------
(* Program constants *)

idFieldLen == 32
DefaultInteractiveIterations == 131072
DefaultRelBlockSize == 8
DefaultCpuCost == 1
AES256KeySize == 256 \div 8
\* cipher.NewGCM: standard nonce size and tag size
GcmNonceSize == 12
GcmTagSize == 16

\* an id of idFieldLen + 1 bytes
LongID == [i \in 1..(idFieldLen + 1) |-> 1]
\* the ids callers present: empty, two valid ones, one too long
IDs == {<<>>, <<1>>, <<2>>, LongID}

----------------------------------------------------------------------------
(* KeyGenerator *)

NilGen ==
    [nil |-> TRUE, iterations |-> 0, relativeBlockSize |-> 0, cpuCost |-> 0, aesKeySize |-> 0]

\* NewKeyGenerator(SetShortDelayIterations())
ShortDelayGen ==
    [nil |-> FALSE, iterations |-> DefaultInteractiveIterations,
     relativeBlockSize |-> DefaultRelBlockSize, cpuCost |-> DefaultCpuCost,
     aesKeySize |-> AES256KeySize]

\* the generators NewMultiLocker is given
Generators == {NilGen, ShortDelayGen}

NoKey == [pass |-> <<>>, salt |-> 0, n |-> 0, r |-> 0, p |-> 0, len |-> 0]

\* scrypt.Key(pass, salt, iterations, relativeBlockSize, cpuCost, aesKeySize)
Stretch(g, pass, salt) ==
    [pass |-> pass, salt |-> salt, n |-> g.iterations, r |-> g.relativeBlockSize,
     p |-> g.cpuCost, len |-> g.aesKeySize]

\* the zero-length Encrypted (nil payload)
EmptyEnc == [key |-> NoKey, data |-> <<>>, salt |-> 0, saltLen |-> 0]

\* len(Encrypted): nonce || ciphertext+tag || salt
EncLen(e) ==
    IF e = EmptyEnc THEN 0 ELSE GcmNonceSize + Len(e.data) + GcmTagSize + e.saltLen

\* GenerateKey: the error; the key is Stretch(g, pass, salt) for the salt drawn
GenerateKeyErr(g, pass) ==
    IF Len(pass) = 0 THEN "ErrEmptyPassPhrase" ELSE "nil"

\* DeriveKeySalt: the error
DeriveKeySaltErr(g, pass, data) ==
    IF Len(pass) = 0 THEN "ErrEmptyPassPhrase"
    ELSE IF EncLen(data) <= g.aesKeySize THEN "ErrInvalidData"
    ELSE "nil"

\* DeriveKeySalt: the key and the salt taken from the end of data (nil, nil on error)
DeriveKeySalt(g, pass, data) ==
    IF DeriveKeySaltErr(g, pass, data) # "nil" THEN [key |-> NoKey, salt |-> 0]
    ELSE [key |-> Stretch(g, pass, data.salt), salt |-> data.salt]

\* DeriveKey: DeriveKeySalt without the salt
DeriveKeyErr(g, pass, data) == DeriveKeySaltErr(g, pass, data)
DeriveKey(g, pass, data) == DeriveKeySalt(g, pass, data).key

----------------------------------------------------------------------------
(* Lock / Unlock primitives *)

\* aes.NewCipher accepts keys of 16, 24 or 32 bytes
AesKeyOk(key) == key.len \in {16, 24, 32}

\* Lock(key, salt, data): data sealed under key, salt appended
PrimLock(key, salt, data) ==
    [key |-> key, data |-> data, salt |-> salt, saltLen |-> key.len]

\* Unlock whose gcm.Open authenticates under every key
PrimUnlockAnyKey(key, enc) ==
    IF AesKeyOk(key) /\ enc # EmptyEnc
    THEN [err |-> "nil", data |-> enc.data]
    ELSE [err |-> "ErrOpen", data |-> <<>>]

\* Unlock(key, data): gcm.Open authenticates only under the sealing key
PrimUnlock(key, enc) ==
    IF AesKeyOk(key) /\ enc # EmptyEnc /\ enc.key = key
    THEN [err |-> "nil", data |-> enc.data]
    ELSE [err |-> "ErrOpen", data |-> <<>>]

----------------------------------------------------------------------------
(* MultiLocker: validation *)

validateHasGenerator ==
    IF keyGen.nil THEN "ErrNoGenerator" ELSE "nil"

validateInitialized ==
    IF EncLen(payload) = 0 THEN "ErrNoPayload" ELSE validateHasGenerator

\* validateForUpdate without the check of basePass
validateForUpdateNoBase == validateInitialized

validateForUpdate ==
    IF validateInitialized # "nil" THEN validateInitialized
    ELSE IF Len(basePass) = 0 THEN "ErrUpdateNotEnabled"
    ELSE "nil"

\* what the call sees when it is made, kept with its result
Result(op, err) ==
    [op |-> op, err |-> err, nKeys |-> Cardinality(DOMAIN surKeys),
     hadPayload |-> EncLen(payload) > 0, wasUpd |-> Len(basePass) > 0]

----------------------------------------------------------------------------
(* NewMultiLocker / NewWriteMultiLocker *)

\* one goroutine uses the instance: no second call is in flight
NoCalls == [serial |-> TRUE]
\* nothing was handed to the derive-then-Unlock path
NoProbe == [op |-> "none"]

Init ==
    /\ surKeys = << >>
    /\ payload = EmptyEnc
    /\ basePass = <<>>
    /\ keyGen \in Generators
    /\ fresh = FALSE
    /\ last = [op |-> "New", err |-> "nil", nKeys |-> 0, hadPayload |-> FALSE, wasUpd |-> FALSE]
    /\ calls = NoCalls
    /\ probe = NoProbe

----------------------------------------------------------------------------
(* MultiLocker: reading operations *)

\* ListKeyIDs orders ids as sort.Strings does: bytewise, a proper prefix first
StrLess(a, b) ==
    \E k \in 0..Len(a) :
        /\ k <= Len(b)
        /\ \A i \in 1..k : a[i] = b[i]
        /\ IF k = Len(a) THEN Len(b) > k ELSE k < Len(b) /\ a[k + 1] < b[k + 1]

RECURSIVE SortStrings(_)
SortStrings(S) ==
    IF S = {} THEN <<>>
    ELSE LET m == CHOOSE x \in S : \A y \in S \ {x} : StrLess(x, y)
         IN <<m>> \o SortStrings(S \ {m})

ListKeyIDs == SortStrings(DOMAIN surKeys)

\* MultiLocker.Unlock(basePass): the error and the plaintext
UnlockResult(bp) ==
    IF validateInitialized # "nil" THEN [err |-> validateInitialized, data |-> <<>>]
    ELSE IF DeriveKeyErr(keyGen, bp, payload) # "nil"
        THEN [err |-> "ErrInvalidPassword", data |-> <<>>]
    ELSE IF PrimUnlock(DeriveKey(keyGen, bp, payload), payload).err # "nil"
        THEN [err |-> "ErrInvalidPassword", data |-> <<>>]
    ELSE [err |-> "nil", data |-> PrimUnlock(DeriveKey(keyGen, bp, payload), payload).data]

\* the steps SurrogateUnlock and SurrogateLock share: look the id up and unwrap
\* its blob with a key derived from pass; data is the wrapped base passphrase
UnwrapSurrogate(id, pass) ==
    IF validateInitialized # "nil" THEN [err |-> validateInitialized, data |-> <<>>]
    ELSE IF id \notin DOMAIN surKeys THEN [err |-> "ErrIdNotFound", data |-> <<>>]
    ELSE IF DeriveKeyErr(keyGen, pass, surKeys[id]) # "nil"
        THEN [err |-> DeriveKeyErr(keyGen, pass, surKeys[id]), data |-> <<>>]
    ELSE IF PrimUnlock(DeriveKey(keyGen, pass, surKeys[id]), surKeys[id]).err # "nil"
        THEN [err |-> "ErrInvalidPassword", data |-> <<>>]
    ELSE [err |-> "nil",
          data |-> PrimUnlock(DeriveKey(keyGen, pass, surKeys[id]), surKeys[id]).data]

\* SurrogateUnlock that returns what it unwrapped from the entry when the
\* payload does not open under it
SurrogateUnlockResultNoSecond(id, pass) ==
    LET sur == UnwrapSurrogate(id, pass) IN
    IF sur.err # "nil" THEN sur
    ELSE IF DeriveKeyErr(keyGen, sur.data, payload) # "nil"
        THEN [err |-> DeriveKeyErr(keyGen, sur.data, payload), data |-> <<>>]
    ELSE IF PrimUnlock(DeriveKey(keyGen, sur.data, payload), payload).err # "nil"
        THEN [err |-> "nil", data |-> sur.data]
    ELSE [err |-> "nil", data |-> PrimUnlock(DeriveKey(keyGen, sur.data, payload), payload).data]

\* MultiLocker.SurrogateUnlock(id, pass): the error and the plaintext
SurrogateUnlockResult(id, pass) ==
    LET sur == UnwrapSurrogate(id, pass) IN
    IF sur.err # "nil" THEN sur
    ELSE IF DeriveKeyErr(keyGen, sur.data, payload) # "nil"
        THEN [err |-> DeriveKeyErr(keyGen, sur.data, payload), data |-> <<>>]
    ELSE IF PrimUnlock(DeriveKey(keyGen, sur.data, payload), payload).err # "nil"
        THEN [err |-> "ErrInvalidPassword", data |-> <<>>]
    ELSE [err |-> "nil", data |-> PrimUnlock(DeriveKey(keyGen, sur.data, payload), payload).data]

\* Unlock that caches the passphrase that opened the payload
UnlockCachesPass(bp) ==
    /\ last' = Result("Unlock", UnlockResult(bp).err)
    /\ basePass' = IF UnlockResult(bp).err = "nil" THEN bp ELSE basePass
    /\ UNCHANGED others
    /\ UNCHANGED <<surKeys, payload, keyGen, fresh>>

Unlock(bp) ==
    /\ last' = Result("Unlock", UnlockResult(bp).err)
    /\ UNCHANGED others
    /\ UNCHANGED <<surKeys, payload, basePass, keyGen, fresh>>

SurrogateUnlock(id, pass) ==
    /\ last' = Result("SurrogateUnlock", SurrogateUnlockResult(id, pass).err)
    /\ UNCHANGED others
    /\ UNCHANGED <<surKeys, payload, basePass, keyGen, fresh>>

----------------------------------------------------------------------------
(* MultiLocker: update mode *)

\* EnableUpdate without the Unlock of the payload under the derived key
EnableUpdateErrNoVerify(pass) ==
    IF validateInitialized # "nil" THEN validateInitialized
    ELSE DeriveKeyErr(keyGen, pass, payload)

EnableUpdateErr(pass) ==
    IF validateInitialized # "nil" THEN validateInitialized
    ELSE IF DeriveKeyErr(keyGen, pass, payload) # "nil" THEN DeriveKeyErr(keyGen, pass, payload)
    ELSE IF PrimUnlock(DeriveKey(keyGen, pass, payload), payload).err # "nil"
        THEN "ErrInvalidPassword"
    ELSE "nil"

EnableUpdate(pass) ==
    LET err == EnableUpdateErr(pass) IN
    /\ IF err = "nil"
       THEN basePass' = pass /\ fresh' = FALSE
       ELSE UNCHANGED <<basePass, fresh>>
    /\ last' = Result("EnableUpdate", err)
    /\ UNCHANGED others
    /\ UNCHANGED <<surKeys, payload, keyGen>>

\* DisableUpdate that does nothing
DisableUpdateKeepPass ==
    /\ last' = Result("DisableUpdate", "nil")
    /\ UNCHANGED others
    /\ UNCHANGED <<surKeys, payload, basePass, keyGen, fresh>>

DisableUpdate ==
    /\ basePass' = <<>>
    /\ last' = Result("DisableUpdate", "nil")
    /\ UNCHANGED others
    /\ UNCHANGED <<surKeys, payload, keyGen, fresh>>

----------------------------------------------------------------------------
(* MultiLocker: the surrogate table *)

\* AddSurrogatePass without the check that id is not in the table yet
AddSurrogatePassErrNoExists(id, pass) ==
    IF Len(id) > idFieldLen \/ Len(id) = 0 THEN "ErrIdRange"
    ELSE IF validateForUpdate # "nil" THEN validateForUpdate
    ELSE GenerateKeyErr(keyGen, pass)

AddSurrogatePassErr(id, pass) ==
    IF Len(id) > idFieldLen \/ Len(id) = 0 THEN "ErrIdRange"
    ELSE IF id \in DOMAIN surKeys THEN "ErrIdExists"
    ELSE IF validateForUpdate # "nil" THEN validateForUpdate
    ELSE GenerateKeyErr(keyGen, pass)

\* AddSurrogatePass that seals the surrogate passphrase instead of l.basePass
AddSurrogatePassSealsPass(id, pass) ==
    LET err == AddSurrogatePassErr(id, pass) IN
    /\ IF err = "nil"
       THEN \E salt \in Salts :
                surKeys' = [i \in DOMAIN surKeys \cup {id} |->
                               IF i = id
                               THEN PrimLock(Stretch(keyGen, pass, salt), salt, pass)
                               ELSE surKeys[i]]
       ELSE UNCHANGED surKeys
    /\ last' = Result("AddSurrogatePass", err)
    /\ UNCHANGED others
    /\ UNCHANGED <<payload, basePass, keyGen, fresh>>

\* AddSurrogatePass that starts a new table with the entry
AddSurrogatePassNewTable(id, pass) ==
    LET err == AddSurrogatePassErr(id, pass) IN
    /\ IF err = "nil"
       THEN \E salt \in Salts :
                surKeys' = [i \in {id} |-> PrimLock(Stretch(keyGen, pass, salt), salt, basePass)]
       ELSE UNCHANGED surKeys
    /\ last' = Result("AddSurrogatePass", err)
    /\ UNCHANGED others
    /\ UNCHANGED <<payload, basePass, keyGen, fresh>>

AddSurrogatePass(id, pass) ==
    LET err == AddSurrogatePassErr(id, pass) IN
    /\ IF err = "nil"
       THEN \E salt \in Salts :
                surKeys' = [i \in DOMAIN surKeys \cup {id} |->
                               IF i = id
                               THEN PrimLock(Stretch(keyGen, pass, salt), salt, basePass)
                               ELSE surKeys[i]]
       ELSE UNCHANGED surKeys
    /\ last' = Result("AddSurrogatePass", err)
    /\ UNCHANGED others
    /\ UNCHANGED <<payload, basePass, keyGen, fresh>>

RemoveSurrogatePassErr(id) == validateForUpdate

\* RemoveSurrogatePass that empties the table
RemoveSurrogatePassAll(id) ==
    LET err == RemoveSurrogatePassErr(id) IN
    /\ IF err = "nil" /\ id \in DOMAIN surKeys
       THEN surKeys' = << >>
       ELSE UNCHANGED surKeys
    /\ last' = Result("RemoveSurrogatePass", err)
    /\ UNCHANGED others
    /\ UNCHANGED <<payload, basePass, keyGen, fresh>>

RemoveSurrogatePass(id) ==
    LET err == RemoveSurrogatePassErr(id) IN
    /\ IF err = "nil" /\ id \in DOMAIN surKeys
       THEN surKeys' = [i \in DOMAIN surKeys \ {id} |-> surKeys[i]]
       ELSE UNCHANGED surKeys
    /\ last' = Result("RemoveSurrogatePass", err)
    /\ UNCHANGED others
    /\ UNCHANGED <<payload, basePass, keyGen, fresh>>

UpdateSurrogatePassErr(id, newPass) ==
    IF Len(id) > idFieldLen THEN "ErrIdTooLong"
    ELSE IF id \notin DOMAIN surKeys THEN "ErrIdNotPresent"
    ELSE IF validateForUpdate # "nil" THEN validateForUpdate
    ELSE GenerateKeyErr(keyGen, newPass)

\* sur is a copy of the map's value (surrogateKey is a struct): the assignment
\* sur.encryptedPass = encryptedPass changes the copy, and the map keeps its entry
UpdateSurrogatePass(id, newPass) ==
    LET err == UpdateSurrogatePassErr(id, newPass) IN
    /\ last' = Result("UpdateSurrogatePass", err)
    /\ UNCHANGED others
    /\ UNCHANGED <<surKeys, payload, basePass, keyGen, fresh>>

----------------------------------------------------------------------------
(* MultiLocker: writing the payload *)

\* InvalidateLock without l.surKeys = map[string]surrogateKey{}
InvalidateLockKeepKeys(pass, unencrypted) ==
    LET err == IF keyGen.nil THEN "ErrNoGenerator" ELSE GenerateKeyErr(keyGen, pass) IN
    /\ IF err = "nil"
       THEN \E salt \in Salts :
                payload' = PrimLock(Stretch(keyGen, pass, salt), salt, unencrypted)
       ELSE UNCHANGED payload
    /\ last' = Result("InvalidateLock", err)
    /\ UNCHANGED others
    /\ UNCHANGED <<surKeys, basePass, keyGen, fresh>>

InvalidateLockErr(pass) ==
    IF validateHasGenerator # "nil" THEN validateHasGenerator
    ELSE GenerateKeyErr(keyGen, pass)

\* basePass is not assigned: a cached base passphrase stays as it was
InvalidateLock(pass, unencrypted) ==
    LET err == InvalidateLockErr(pass) IN
    /\ IF err = "nil"
       THEN /\ \E salt \in Salts :
                   payload' = PrimLock(Stretch(keyGen, pass, salt), salt, unencrypted)
            /\ surKeys' = << >>
       ELSE UNCHANGED <<payload, surKeys>>
    /\ last' = Result("InvalidateLock", err)
    /\ UNCHANGED others
    /\ UNCHANGED <<basePass, keyGen, fresh>>

\* Lock without the check of basePass against the existing payload
LockNoVerify(bp, unencrypted) ==
    LET err == IF keyGen.nil THEN "ErrNoGenerator" ELSE GenerateKeyErr(keyGen, bp) IN
    /\ IF err = "nil"
       THEN /\ \E salt \in Salts :
                   payload' = PrimLock(Stretch(keyGen, bp, salt), salt, unencrypted)
            /\ basePass' = bp
       ELSE UNCHANGED <<payload, basePass>>
    /\ last' = Result("Lock", err)
    /\ UNCHANGED others
    /\ UNCHANGED <<surKeys, keyGen, fresh>>

\* Lock that seals and stores the new payload before it checks basePass
LockSealFirst(bp, unencrypted) ==
    LET err ==
            IF keyGen.nil THEN "ErrNoGenerator"
            ELSE IF GenerateKeyErr(keyGen, bp) # "nil" THEN GenerateKeyErr(keyGen, bp)
            ELSE IF (Cardinality(DOMAIN surKeys) > 0 \/ EncLen(payload) > 0)
                    /\ PrimUnlock(DeriveKeySalt(keyGen, bp, payload).key, payload).err # "nil"
                THEN "ErrInvalidPassword"
            ELSE "nil"
    IN
    /\ IF err \in {"nil", "ErrInvalidPassword"}
       THEN \E salt \in Salts :
                payload' = PrimLock(Stretch(keyGen, bp, salt), salt, unencrypted)
       ELSE UNCHANGED payload
    /\ IF err = "nil" THEN basePass' = bp ELSE UNCHANGED basePass
    /\ last' = Result("Lock", err)
    /\ UNCHANGED others
    /\ UNCHANGED <<surKeys, keyGen, fresh>>

\* Lock without l.basePass = basePass
LockNoCache(bp, unencrypted) ==
    LET err ==
            IF keyGen.nil THEN "ErrNoGenerator"
            ELSE IF (Cardinality(DOMAIN surKeys) > 0 \/ EncLen(payload) > 0)
                    /\ PrimUnlock(DeriveKeySalt(keyGen, bp, payload).key, payload).err # "nil"
                THEN "ErrInvalidPassword"
            ELSE GenerateKeyErr(keyGen, bp)
    IN
    /\ IF err = "nil"
       THEN \E salt \in Salts :
                payload' = PrimLock(Stretch(keyGen, bp, salt), salt, unencrypted)
       ELSE UNCHANGED payload
    /\ last' = Result("Lock", err)
    /\ UNCHANGED others
    /\ UNCHANGED <<surKeys, basePass, keyGen, fresh>>

LockErr(bp) ==
    IF validateHasGenerator # "nil" THEN validateHasGenerator
    ELSE IF (Cardinality(DOMAIN surKeys) > 0 \/ EncLen(payload) > 0)
            /\ DeriveKeySaltErr(keyGen, bp, payload) # "nil"
        THEN DeriveKeySaltErr(keyGen, bp, payload)
    ELSE IF (Cardinality(DOMAIN surKeys) > 0 \/ EncLen(payload) > 0)
            /\ PrimUnlock(DeriveKeySalt(keyGen, bp, payload).key, payload).err # "nil"
        THEN "ErrInvalidPassword"
    ELSE GenerateKeyErr(keyGen, bp)

\* the new payload is sealed under GenerateKey(basePass): a fresh salt is drawn
Lock(bp, unencrypted) ==
    LET err == LockErr(bp) IN
    /\ IF err = "nil"
       THEN /\ \E salt \in Salts :
                   payload' = PrimLock(Stretch(keyGen, bp, salt), salt, unencrypted)
            /\ basePass' = bp
       ELSE UNCHANGED <<payload, basePass>>
    /\ last' = Result("Lock", err)
    /\ UNCHANGED others
    /\ UNCHANGED <<surKeys, keyGen, fresh>>

\* WriteMultiLocker.SurrogateLock: the error of DeriveKeySalt is overwritten by
\* Unlock's, which fails on the nil key
SurrogateLockErr(id, pass) ==
    LET sur == UnwrapSurrogate(id, pass) IN
    IF sur.err # "nil" THEN sur.err
    ELSE IF PrimUnlock(DeriveKeySalt(keyGen, sur.data, payload).key, payload).err # "nil"
        THEN "ErrInvalidPassword"
    ELSE "nil"

SurrogateLock(id, pass, unencrypted) ==
    LET err == SurrogateLockErr(id, pass)
        ks == DeriveKeySalt(keyGen, UnwrapSurrogate(id, pass).data, payload)
    IN
    /\ IF err = "nil"
       THEN payload' = PrimLock(ks.key, ks.salt, unencrypted)
       ELSE UNCHANGED payload
    /\ last' = Result("SurrogateLock", err)
    /\ UNCHANGED others
    /\ UNCHANGED <<surKeys, basePass, keyGen, fresh>>

----------------------------------------------------------------------------
(* Write and ReadMultiLocker *)

\* bin.FixedString(key, idFieldLen), written: the id in a field of idFieldLen
\* bytes, filled up with zero bytes
PadID(id) == id \o [i \in 1..(idFieldLen - Len(id)) |-> 0]

\* bin.FixedString(key, idFieldLen), read: the field up to its last byte that
\* is not a zero byte
TrimID(field) ==
    LET n == CHOOSE k \in 0..Len(field) :
                 /\ k = 0 \/ field[k] # 0
                 /\ \A i \in (k + 1)..Len(field) : field[i] = 0
    IN SubSeq(field, 1, n)

\* the instance the methods are called on
Self == [surKeys |-> surKeys, payload |-> payload, basePass |-> basePass, keyGen |-> keyGen]

\* mapper that also writes l.basePass
WriteOfWithPass(l) ==
    <<{<<PadID(id), l.surKeys[id]>> : id \in DOMAIN l.surKeys},
      <<l.keyGen.iterations, l.keyGen.relativeBlockSize, l.keyGen.cpuCost, l.keyGen.aesKeySize>>,
      l.payload,
      l.basePass>>

\* l.mapper().Write: the surrogate table (each id in its field, each blob with
\* its length), the generator's settings, then the payload to the end
WriteOf(l) ==
    <<{<<PadID(id), l.surKeys[id]>> : id \in DOMAIN l.surKeys},
      <<l.keyGen.iterations, l.keyGen.relativeBlockSize, l.keyGen.cpuCost, l.keyGen.aesKeySize>>,
      l.payload>>

\* Write
WriteBytes == WriteOf(Self)

\* ReadMultiLocker that leaves the new(KeyGenerator) as it is
ReadFromNoSettings(bytes) ==
    [surKeys |-> [id \in {TrimID(e[1]) : e \in bytes[1]} |->
                    (CHOOSE e \in bytes[1] : TrimID(e[1]) = id)[2]],
     keyGen |-> [nil |-> FALSE, iterations |-> 0, relativeBlockSize |-> 0,
                 cpuCost |-> 0, aesKeySize |-> 0],
     payload |-> bytes[3],
     basePass |-> <<>>]

\* ReadMultiLocker: a new instance with a new KeyGenerator, filled from the bytes;
\* basePass is not part of the bytes and stays nil
ReadFrom(bytes) ==
    [surKeys |-> [id \in {TrimID(e[1]) : e \in bytes[1]} |->
                    (CHOOSE e \in bytes[1] : TrimID(e[1]) = id)[2]],
     keyGen |-> [nil |-> FALSE, iterations |-> bytes[2][1], relativeBlockSize |-> bytes[2][2],
                 cpuCost |-> bytes[2][3], aesKeySize |-> bytes[2][4]],
     payload |-> bytes[3],
     basePass |-> <<>>]

\* the instance is written and replaced by the one read back from its bytes
ReadMultiLocker ==
    /\ ~keyGen.nil
    /\ \E l \in {ReadFrom(WriteBytes)} :
          /\ surKeys' = l.surKeys
          /\ keyGen' = l.keyGen
          /\ payload' = l.payload
          /\ basePass' = l.basePass
    /\ fresh' = TRUE
    /\ last' = Result("ReadMultiLocker", "nil")
    /\ UNCHANGED others

----------------------------------------------------------------------------
(* The callers *)

DoLock == \E bp \in Passphrases, m \in Plaintexts : Lock(bp, m)
DoInvalidateLock == \E bp \in Passphrases, m \in Plaintexts : InvalidateLock(bp, m)
DoEnableUpdate == \E bp \in Passphrases : EnableUpdate(bp)
DoAddSurrogatePass == \E id \in IDs, p \in Passphrases : AddSurrogatePass(id, p)
DoRemoveSurrogatePass == \E id \in IDs : RemoveSurrogatePass(id)
DoUpdateSurrogatePass == \E id \in IDs, p \in Passphrases : UpdateSurrogatePass(id, p)
DoUnlock == \E bp \in Passphrases : Unlock(bp)
DoSurrogateUnlock == \E id \in IDs, p \in Passphrases : SurrogateUnlock(id, p)
DoSurrogateLock == \E id \in IDs, p \in Passphrases, m \in Plaintexts : SurrogateLock(id, p, m)

Next ==
    \/ DoLock
    \/ DoInvalidateLock
    \/ DoEnableUpdate
    \/ DisableUpdate
    \/ DoAddSurrogatePass
    \/ DoRemoveSurrogatePass
    \/ DoUpdateSurrogatePass
    \/ DoUnlock
    \/ DoSurrogateUnlock
    \/ DoSurrogateLock
    \/ ReadMultiLocker

Spec == Init /\ [][Next]_vars

----------------------------------------------------------------------------
(* Vocabulary of the properties *)

\* a key derived from pass and the payload's embedded salt opens the payload
OpensPayload(pass) ==
    /\ Len(pass) > 0
    /\ EncLen(payload) > 0
    /\ PrimUnlock(Stretch(keyGen, pass, payload.salt), payload).err = "nil"

\* a key derived from pass and the blob's embedded salt opens the blob of id
OpensSurrogate(id, pass) ==
    /\ id \in DOMAIN surKeys
    /\ Len(pass) > 0
    /\ PrimUnlock(Stretch(keyGen, pass, surKeys[id].salt), surKeys[id]).err = "nil"

TableMutators == {"AddSurrogatePass", "RemoveSurrogatePass", "UpdateSurrogatePass"}

ValidID(id) == Len(id) > 0 /\ Len(id) <= idFieldLen

----------------------------------------------------------------------------
(* C1 *)

\* C1: in every reachable state, every entry of the surrogate table, unwrapped
\* with the surrogate passphrase that opens it, yields a base passphrase that
\* opens the current payload, so SurrogateUnlock with that id and passphrase
\* succeeds.
C1_SurrogatesOpenPayload ==
    \A id \in DOMAIN surKeys : \A p \in Passphrases :
        OpensSurrogate(id, p) => SurrogateUnlockResult(id, p).err = "nil"

----------------------------------------------------------------------------
(* C2 *)

\* C2: after a successful re-lock Lock(base, m2) on a MultiLocker that holds
\* surrogate keys, the surrogate table is what it was, and SurrogateUnlock of
\* every id with its surrogate passphrase succeeds and returns m2.
C2_RelockKeepsSurrogates ==
    [][\A bp \in Passphrases, m2 \in Plaintexts :
          (/\ last'.op = "Lock"
           /\ last'.err = "nil"
           /\ EncLen(payload) > 0
           /\ DOMAIN surKeys # {}
           /\ Lock(bp, m2))
          => /\ surKeys' = surKeys
             /\ \A id \in DOMAIN surKeys : \A p \in Passphrases :
                   OpensSurrogate(id, p)
                   => SurrogateUnlockResult(id, p)' = [err |-> "nil", data |-> m2]]_vars

----------------------------------------------------------------------------
(* C3 *)

----------------------------------------------------------------------------
(* C4 *)

----------------------------------------------------------------------------
(* C5 *)

\* C5: while no base passphrase is cached, AddSurrogatePass, RemoveSurrogatePass
\* and UpdateSurrogatePass return an error and leave the surrogate table as it
\* was; while one is cached (after a successful EnableUpdate) the same calls
\* with valid arguments succeed.
C5_UpdateGating ==
    [][/\ (last'.op \in TableMutators /\ Len(basePass) = 0)
          => (last'.err # "nil" /\ surKeys' = surKeys)
       /\ (last'.op = "AddSurrogatePass" /\ Len(basePass) > 0)
          => \A id \in IDs, p \in Passphrases :
                (AddSurrogatePass(id, p) /\ ValidID(id) /\ id \notin DOMAIN surKeys
                    /\ Len(p) > 0)
                => (last'.err = "nil" /\ id \in DOMAIN surKeys')
       /\ (last'.op = "RemoveSurrogatePass" /\ Len(basePass) > 0)
          => \A id \in IDs :
                RemoveSurrogatePass(id) => (last'.err = "nil" /\ id \notin DOMAIN surKeys')
       /\ (last'.op = "UpdateSurrogatePass" /\ Len(basePass) > 0)
          => \A id \in IDs, p \in Passphrases :
                (UpdateSurrogatePass(id, p) /\ id \in DOMAIN surKeys /\ Len(p) > 0)
                => last'.err = "nil"]_vars

\* a table mutator was refused on an initialized MultiLocker with surrogate
\* keys because update mode was not enabled
C5_Witness ==
    /\ last.op \in TableMutators
    /\ last.err = "ErrUpdateNotEnabled"
    /\ ~last.wasUpd
    /\ last.nKeys > 0

----------------------------------------------------------------------------
(* C6 *)

\* C6: update mode is entered only by a successful EnableUpdate or by the
\* first Lock, which sets the initial payload, and is left only by
\* DisableUpdate; no other operation changes whether a base passphrase is
\* cached.  (ReadMultiLocker returns another instance and is left out.)
C6_UpdateModeExplicit ==
    [][last'.op # "ReadMultiLocker"
       => /\ (Len(basePass) = 0 /\ Len(basePass') > 0)
             => \/ last'.op = "EnableUpdate" /\ last'.err = "nil"
                \/ last'.op = "Lock" /\ last'.err = "nil" /\ EncLen(payload) = 0
          /\ (Len(basePass) > 0 /\ Len(basePass') = 0)
             => last'.op = "DisableUpdate"]_vars

----------------------------------------------------------------------------
(* C7 *)

\* C7: after UpdateSurrogatePass(id, newPass) returns success,
\* SurrogateUnlock(id, newPass) succeeds and returns the payload's plaintext,
\* and SurrogateUnlock(id, oldPass) fails with InvalidPassword for the
\* passphrase oldPass # newPass that opened the entry before.
C7_UpdateReplacesWrap ==
    [][\A id \in IDs, newPass \in Passphrases :
          (last'.op = "UpdateSurrogatePass" /\ last'.err = "nil"
                /\ UpdateSurrogatePass(id, newPass))
          => /\ SurrogateUnlockResult(id, newPass)' = [err |-> "nil", data |-> payload.data]
             /\ \A oldPass \in Passphrases :
                   (oldPass # newPass /\ OpensSurrogate(id, oldPass))
                   => SurrogateUnlockResult(id, oldPass)'.err = "ErrInvalidPassword"]_vars

----------------------------------------------------------------------------
(* C8 *)

----------------------------------------------------------------------------
(* C9 *)

\* C9: EnableUpdate(pass) on an initialized MultiLocker succeeds, caching pass,
\* if and only if a key derived from pass and the payload's embedded salt
\* opens the payload; with any other non-empty passphrase it returns
\* InvalidPassword; whenever it fails, the cached passphrase, the payload and
\* the surrogate table are what they were; without a payload it fails.
C9_EnableUpdateVerifies ==
    [][\A pass \in Passphrases :
          (last'.op = "EnableUpdate" /\ EnableUpdate(pass))
          => /\ last'.err = "nil" <=> OpensPayload(pass)
             /\ last'.err = "nil" => basePass' = pass
             /\ (EncLen(payload) > 0 /\ Len(pass) > 0 /\ ~OpensPayload(pass))
                => last'.err = "ErrInvalidPassword"
             /\ last'.err # "nil" => UNCHANGED <<basePass, payload, surKeys>>
             /\ EncLen(payload) = 0 => last'.err # "nil"]_vars

\* EnableUpdate has refused a passphrase on a MultiLocker holding a payload and
\* surrogate keys
C9_Witness ==
    /\ last.op = "EnableUpdate"
    /\ last.err = "ErrInvalidPassword"
    /\ last.hadPayload
    /\ last.nKeys > 0

----------------------------------------------------------------------------
(* C10 *)

\* C10: on a MultiLocker obtained from ReadMultiLocker, until EnableUpdate has
\* succeeded, every operation leaves the payload and the surrogate table as
\* they were.  (Stated for instances read back with a payload: on those
\* EnableUpdate can succeed.)
C10_FreshReadOnly ==
    [][(fresh /\ EncLen(payload) > 0) => (payload' = payload /\ surKeys' = surKeys)]_vars

----------------------------------------------------------------------------
(* C11 *)

\* C11: while surrogate keys exist and no base passphrase is cached (update
\* mode is not enabled, e.g. after DisableUpdate), Lock returns an error and
\* leaves the payload as it was.
C11_LockNeedsUpdateMode ==
    [][(last'.op = "Lock" /\ DOMAIN surKeys # {} /\ Len(basePass) = 0)
       => (last'.err # "nil" /\ payload' = payload)]_vars

----------------------------------------------------------------------------
(* C12 *)

\* the callers of the round trip: the first Lock on a new MultiLocker, then
\* AddSurrogatePass and RemoveSurrogatePass of any id, DisableUpdate and
\* SurrogateUnlock in any order and number
RoundTripNext ==
    \/ EncLen(payload) = 0 /\ DoLock
    \/ EncLen(payload) > 0 /\ DoAddSurrogatePass
    \/ EncLen(payload) > 0 /\ DoRemoveSurrogatePass
    \/ EncLen(payload) > 0 /\ DisableUpdate
    \/ EncLen(payload) > 0 /\ DoSurrogateUnlock

SpecRoundTrip == Init /\ [][RoundTripNext]_vars

\* C12: after Lock(base, m) on a new MultiLocker, a successful
\* AddSurrogatePass(id, surPass) makes SurrogateUnlock(id, surPass) return
\* exactly m, and for every id and passphrase SurrogateUnlock keeps returning m
\* through every later AddSurrogatePass and RemoveSurrogatePass of another id
\* and through DisableUpdate.
C12_SurrogateRoundTrip ==
    [][/\ \A bp \in Passphrases, m \in Plaintexts :
             (last'.op = "Lock" /\ last'.err = "nil" /\ Lock(bp, m)) => payload'.data = m
       /\ \A id \in IDs, surPass \in Passphrases :
             (last'.op = "AddSurrogatePass" /\ AddSurrogatePass(id, surPass))
             => /\ (ValidID(id) /\ id \notin DOMAIN surKeys /\ Len(surPass) > 0
                        /\ Len(basePass) > 0)
                   => last'.err = "nil"
                /\ last'.err = "nil"
                   => SurrogateUnlockResult(id, surPass)' = [err |-> "nil", data |-> payload.data]
       /\ \A id \in DOMAIN surKeys : \A surPass \in Passphrases :
             (SurrogateUnlockResult(id, surPass).err = "nil"
                 /\ ~(last'.op = "RemoveSurrogatePass" /\ RemoveSurrogatePass(id)))
             => SurrogateUnlockResult(id, surPass)' = [err |-> "nil", data |-> payload.data]
       /\ EncLen(payload) > 0 => payload' = payload]_vars

\* SurrogateUnlock has succeeded after DisableUpdate on a MultiLocker holding
\* two surrogate keys
C12_Witness ==
    /\ last.op = "SurrogateUnlock"
    /\ last.err = "nil"
    /\ ~last.wasUpd
    /\ last.nKeys = 2

----------------------------------------------------------------------------
(* C13 *)

----------------------------------------------------------------------------
(* C14 *)

\* C14: the bytes of Write are the same whatever base passphrase is cached (two
\* MultiLockers that differ only in basePass write the same bytes), the
\* instance read from them has no base passphrase, and so a MultiLocker
\* returned by ReadMultiLocker has update mode disabled.
C14_BasePassNotPersisted ==
    /\ ~keyGen.nil
       => \A bp \in Passphrases :
             /\ WriteOf([Self EXCEPT !.basePass = bp]) = WriteOf(Self)
             /\ ReadFrom(WriteOf([Self EXCEPT !.basePass = bp])).basePass = <<>>
    /\ last.op = "ReadMultiLocker" => (Len(basePass) = 0 /\ validateForUpdate # "nil")

\* a MultiLocker with surrogate keys was written while a base passphrase was
\* cached, and read back
C14_Witness ==
    last.op = "ReadMultiLocker" /\ last.wasUpd /\ last.nKeys > 0

----------------------------------------------------------------------------
(* C15 *)

\* C15: SurrogateLock(id, pass, m) with an id of the table and the passphrase
\* that opens its entry succeeds, with or without a cached base passphrase;
\* after it the payload holds m under the key and the embedded salt it had, the
\* surrogate table is what it was, Unlock with the base passphrase returns m
\* and SurrogateUnlock of every entry of the table with the passphrase that
\* opens it returns m.  With an id that is not in the table or a passphrase
\* that does not open the entry it fails and the payload is what it was.
C15_SurrogateLockReseals ==
    [][\A id \in IDs, pass \in Passphrases, m \in Plaintexts :
          (last'.op = "SurrogateLock" /\ EncLen(payload) > 0 /\ SurrogateLock(id, pass, m))
          => /\ OpensSurrogate(id, pass)
                => /\ last'.err = "nil"
                   /\ payload' = [payload EXCEPT !.data = m]
                   /\ surKeys' = surKeys
                   /\ \A bp \in Passphrases :
                         OpensPayload(bp) => UnlockResult(bp)' = [err |-> "nil", data |-> m]
                   /\ \A id2 \in DOMAIN surKeys : \A p2 \in Passphrases :
                         OpensSurrogate(id2, p2)
                         => SurrogateUnlockResult(id2, p2)' = [err |-> "nil", data |-> m]
             /\ ~OpensSurrogate(id, pass)
                => (last'.err # "nil" /\ payload' = payload)]_vars

----------------------------------------------------------------------------
(* Two goroutines on one instance: one calls Lock, the other InvalidateLock *)

\* The methods take no mutex.  Each call is split where it stops reading the
\* instance and starts writing it; a step reads and writes fields as whole
\* values.  calls.serial says whether the callers hold a mutex of their own
\* around each call.

\* Lock up to the check of basePass against the existing payload
LockCheckErr(bp) ==
    IF validateHasGenerator # "nil" THEN validateHasGenerator
    ELSE IF (Cardinality(DOMAIN surKeys) > 0 \/ EncLen(payload) > 0)
            /\ DeriveKeySaltErr(keyGen, bp, payload) # "nil"
        THEN DeriveKeySaltErr(keyGen, bp, payload)
    ELSE IF (Cardinality(DOMAIN surKeys) > 0 \/ EncLen(payload) > 0)
            /\ PrimUnlock(DeriveKeySalt(keyGen, bp, payload).key, payload).err # "nil"
        THEN "ErrInvalidPassword"
    ELSE "nil"

LockCheck(bp, unencrypted) ==
    /\ calls.lock.pc = "idle"
    /\ calls.serial => calls.inval.pc \in {"idle", "done"}
    /\ calls' = [calls EXCEPT !.lock =
                    [pc |-> IF LockCheckErr(bp) = "nil" THEN "checked" ELSE "done",
                     pass |-> bp, data |-> unencrypted, err |-> LockCheckErr(bp)]]
    /\ UNCHANGED <<surKeys, payload, basePass, keyGen, fresh, last, probe>>

\* Lock from GenerateKey to the end
LockStore ==
    LET err == GenerateKeyErr(keyGen, calls.lock.pass) IN
    /\ calls.lock.pc = "checked"
    /\ IF err = "nil"
       THEN /\ \E salt \in Salts :
                   payload' = PrimLock(Stretch(keyGen, calls.lock.pass, salt), salt,
                                       calls.lock.data)
            /\ basePass' = calls.lock.pass
       ELSE UNCHANGED <<payload, basePass>>
    /\ calls' = [calls EXCEPT !.lock.pc = "done", !.lock.err = err]
    /\ UNCHANGED <<surKeys, keyGen, fresh, last, probe>>

\* InvalidateLock up to l.payload, err = Lock(key, salt, unencrypted)
InvalidateSeal(pass, unencrypted) ==
    LET err == InvalidateLockErr(pass) IN
    /\ calls.inval.pc = "idle"
    /\ calls.serial => calls.lock.pc \in {"idle", "done"}
    /\ IF err = "nil"
       THEN \E salt \in Salts :
                payload' = PrimLock(Stretch(keyGen, pass, salt), salt, unencrypted)
       ELSE UNCHANGED payload
    /\ calls' = [calls EXCEPT !.inval =
                    [pc |-> IF err = "nil" THEN "sealed" ELSE "done",
                     pass |-> pass, data |-> unencrypted, err |-> err]]
    /\ UNCHANGED <<surKeys, basePass, keyGen, fresh, last, probe>>

\* InvalidateLock that returns without l.surKeys = map[string]surrogateKey{}
InvalidateClearKeepKeys ==
    /\ calls.inval.pc = "sealed"
    /\ calls' = [calls EXCEPT !.inval.pc = "done"]
    /\ UNCHANGED <<surKeys, payload, basePass, keyGen, fresh, last, probe>>

\* InvalidateLock from l.surKeys = map[string]surrogateKey{} to the end
InvalidateClear ==
    /\ calls.inval.pc = "sealed"
    /\ surKeys' = << >>
    /\ calls' = [calls EXCEPT !.inval.pc = "done"]
    /\ UNCHANGED <<payload, basePass, keyGen, fresh, last, probe>>

IdleCall == [pc |-> "idle", pass |-> <<>>, data |-> <<>>, err |-> "nil"]

\* the shared instance after Lock(bp0, m0), with or without one surrogate key
\* added by AddSurrogatePass(<<1>>, <<2>>)
ConcurrentInit ==
    /\ keyGen = ShortDelayGen
    /\ \E bp0 \in Passphrases \ {<<>>}, s0 \in Salts, m0 \in Plaintexts :
          /\ payload = PrimLock(Stretch(keyGen, bp0, s0), s0, m0)
          /\ basePass = bp0
          /\ \E s1 \in Salts :
                surKeys \in {<< >>,
                             [i \in {<<1>>} |-> PrimLock(Stretch(keyGen, <<2>>, s1), s1, bp0)]}
    /\ fresh = FALSE
    /\ last = [op |-> "New", err |-> "nil", nKeys |-> 0, hadPayload |-> FALSE, wasUpd |-> FALSE]
    /\ probe = NoProbe
    /\ \E serial \in BOOLEAN :
          calls = [serial |-> serial, start |-> Self, lock |-> IdleCall, inval |-> IdleCall]

DoLockCheck == \E bp \in Passphrases, m \in Plaintexts : LockCheck(bp, m)
DoInvalidateSeal == \E bp \in Passphrases, m \in Plaintexts : InvalidateSeal(bp, m)

ConcurrentNext ==
    \/ DoLockCheck
    \/ LockStore
    \/ DoInvalidateSeal
    \/ InvalidateClear

SpecConcurrent == ConcurrentInit /\ [][ConcurrentNext]_vars

\* MultiLocker.Lock as one step on the instance l, with the salt it draws
LockOn(l, bp, unencrypted, salt) ==
    LET set == Cardinality(DOMAIN l.surKeys) > 0 \/ EncLen(l.payload) > 0
        err ==
            IF l.keyGen.nil THEN "ErrNoGenerator"
            ELSE IF set /\ DeriveKeySaltErr(l.keyGen, bp, l.payload) # "nil"
                THEN DeriveKeySaltErr(l.keyGen, bp, l.payload)
            ELSE IF set /\ PrimUnlock(DeriveKeySalt(l.keyGen, bp, l.payload).key,
                                      l.payload).err # "nil"
                THEN "ErrInvalidPassword"
            ELSE GenerateKeyErr(l.keyGen, bp)
    IN [l |-> IF err = "nil"
              THEN [l EXCEPT !.payload = PrimLock(Stretch(l.keyGen, bp, salt), salt, unencrypted),
                             !.basePass = bp]
              ELSE l,
        err |-> err]

\* MultiLocker.InvalidateLock as one step on the instance l, with the salt it draws
InvalidateLockOn(l, pass, unencrypted, salt) ==
    LET err == IF l.keyGen.nil THEN "ErrNoGenerator" ELSE GenerateKeyErr(l.keyGen, pass)
    IN [l |-> IF err = "nil"
              THEN [l EXCEPT !.payload = PrimLock(Stretch(l.keyGen, pass, salt), salt,
                                                  unencrypted),
                             !.surKeys = << >>]
              ELSE l,
        err |-> err]

\* what the two calls in flight leave when one runs wholly before the other
SerialOutcomes ==
    LET lk == calls.lock
        iv == calls.inval
    IN {[l |-> InvalidateLockOn(LockOn(calls.start, lk.pass, lk.data, s1).l,
                                iv.pass, iv.data, s2).l,
         lockErr |-> LockOn(calls.start, lk.pass, lk.data, s1).err,
         invalErr |-> InvalidateLockOn(LockOn(calls.start, lk.pass, lk.data, s1).l,
                                       iv.pass, iv.data, s2).err] : s1, s2 \in Salts}
       \cup
       {[l |-> LockOn(InvalidateLockOn(calls.start, iv.pass, iv.data, s1).l,
                      lk.pass, lk.data, s2).l,
         lockErr |-> LockOn(InvalidateLockOn(calls.start, iv.pass, iv.data, s1).l,
                            lk.pass, lk.data, s2).err,
         invalErr |-> InvalidateLockOn(calls.start, iv.pass, iv.data, s1).err] :
            s1, s2 \in Salts}

\* what the two calls left
Outcome == [l |-> Self, lockErr |-> calls.lock.err, invalErr |-> calls.inval.err]

BothReturned == calls.lock.pc = "done" /\ calls.inval.pc = "done"

----------------------------------------------------------------------------
(* C16 *)

\* C16: when the callers serialize their calls, the instance and the two
\* errors left by a Lock and an InvalidateLock are those of one of the two
\* serial orders; without serialization the calls interleave between check and
\* write and can leave what no serial order leaves (the witness).
C16_SerializedIsSerial ==
    (calls.serial /\ BothReturned) => Outcome \in SerialOutcomes

\* unserialized, InvalidateLock with another passphrase ran between Lock's
\* check and Lock's write: both returned nil, and the instance is in no state
\* a serial order leaves: the payload is the one Lock sealed, the table is empty
C16_Witness ==
    /\ ~calls.serial
    /\ BothReturned
    /\ calls.lock.err = "nil"
    /\ calls.inval.err = "nil"
    /\ calls.inval.pass # calls.lock.pass
    /\ payload.data = calls.lock.data
    /\ payload.key.pass = calls.lock.pass
    /\ surKeys = << >>
    /\ Outcome \notin SerialOutcomes

----------------------------------------------------------------------------
(* C17 *)

\* C17: no AddSurrogatePass(id, pass) with an empty id, an id longer than
\* idFieldLen bytes or an id that is in the table returns nil; an
\* AddSurrogatePass that returns an error leaves the table as it was; no
\* AddSurrogatePass changes the entry of an id that is in the table.
C17_AddRejectsBadIds ==
    [][/\ (last'.op = "AddSurrogatePass" /\ last'.err = "nil")
          => \A id \in IDs, pass \in Passphrases :
                (Len(id) = 0 \/ Len(id) > idFieldLen \/ id \in DOMAIN surKeys)
                => ~AddSurrogatePass(id, pass)
       /\ (last'.op = "AddSurrogatePass" /\ last'.err # "nil")
          => surKeys' = surKeys
       /\ last'.op = "AddSurrogatePass"
          => \A id \in DOMAIN surKeys :
                id \in DOMAIN surKeys' /\ surKeys'[id] = surKeys[id]]_vars

\* AddSurrogatePass was refused for an id that is in the table, with update
\* mode enabled
C17_Witness ==
    last.op = "AddSurrogatePass" /\ last.err = "ErrIdExists" /\ last.wasUpd

----------------------------------------------------------------------------
(* C18 *)

\* C18: with a base passphrase cached, RemoveSurrogatePass(id) returns nil;
\* for an id of the table, ListKeyIDs no longer holds it afterwards,
\* SurrogateUnlock of it fails with id-not-found for every passphrase, and
\* every other entry is what it was, with SurrogateUnlock of it under the
\* passphrase that opens it giving what it gave; for an id that is not in the
\* table nothing changes.
\* No UpdateSurrogatePass of an id that is not in the table returns nil, and
\* an UpdateSurrogatePass that returns an error leaves the table as it was.
C18_RemoveDeletes ==
    [][/\ (last'.op = "RemoveSurrogatePass" /\ Len(basePass) > 0)
          => /\ last'.err = "nil"
             /\ \A id \in IDs :
                   RemoveSurrogatePass(id)
                   => /\ DOMAIN surKeys' = DOMAIN surKeys \ {id}
                      /\ \A ids \in {ListKeyIDs'} : \A k \in 1..Len(ids) : ids[k] # id
                      /\ id \in DOMAIN surKeys
                         => \A p \in Passphrases :
                               SurrogateUnlockResult(id, p)'.err = "ErrIdNotFound"
                      /\ id \notin DOMAIN surKeys
                         => UNCHANGED <<surKeys, payload, basePass>>
             /\ \A id2 \in DOMAIN surKeys' :
                   /\ surKeys'[id2] = surKeys[id2]
                   /\ \A p \in Passphrases :
                         OpensSurrogate(id2, p)
                         => SurrogateUnlockResult(id2, p)' = SurrogateUnlockResult(id2, p)
       /\ (last'.op = "UpdateSurrogatePass" /\ last'.err = "nil")
          => \A id \in IDs \ DOMAIN surKeys, p \in Passphrases : ~UpdateSurrogatePass(id, p)
       /\ (last'.op = "UpdateSurrogatePass" /\ last'.err # "nil")
          => surKeys' = surKeys]_vars

\* RemoveSurrogatePass has deleted one of two surrogate keys
C18_Witness ==
    /\ last.op = "RemoveSurrogatePass"
    /\ last.err = "nil"
    /\ last.nKeys = 2
    /\ Cardinality(DOMAIN surKeys) = 1

----------------------------------------------------------------------------
(* C19 *)

\* both layers authenticate: pass opens the entry of id, and the base
\* passphrase wrapped in the entry opens the payload
BothLayersOpen(id, pass) ==
    /\ OpensSurrogate(id, pass)
    /\ OpensPayload(surKeys[id].data)

\* C19: on a MultiLocker with a payload and a generator, SurrogateUnlock(id,
\* pass) of an id of the table with a non-empty pass returns InvalidPassword
\* unless pass opens the entry and the base passphrase wrapped in it opens the
\* payload; of an id that is not in the table it returns the id-not-found
\* error, whatever pass is; it returns nil, with the plaintext of the payload,
\* only when both layers open, and no plaintext otherwise.  The error a
\* SurrogateUnlock call returned on such a MultiLocker is one of these.
C19_SurrogateUnlockErrors ==
    /\ validateInitialized = "nil"
       => \A id \in IDs, pass \in Passphrases :
             LET r == SurrogateUnlockResult(id, pass) IN
             /\ id \notin DOMAIN surKeys => r.err = "ErrIdNotFound"
             /\ (id \in DOMAIN surKeys /\ Len(pass) > 0 /\ ~BothLayersOpen(id, pass))
                => r.err = "ErrInvalidPassword"
             /\ r.err = "nil" => (BothLayersOpen(id, pass) /\ r.data = payload.data)
             /\ r.err # "nil" => r.data = <<>>
    /\ (last.op = "SurrogateUnlock" /\ last.hadPayload /\ ~keyGen.nil)
       => last.err \in {"nil", "ErrIdNotFound", "ErrInvalidPassword", "ErrEmptyPassPhrase"}

\* SurrogateUnlock has returned InvalidPassword on a MultiLocker holding two
\* surrogate keys, one of which opens under its passphrase and wraps a base
\* passphrase that does not open the payload
C19_Witness ==
    /\ last.op = "SurrogateUnlock"
    /\ last.err = "ErrInvalidPassword"
    /\ last.hadPayload
    /\ last.nKeys = 2
    /\ \E id \in DOMAIN surKeys, pass \in Passphrases :
          OpensSurrogate(id, pass) /\ ~OpensPayload(surKeys[id].data)

----------------------------------------------------------------------------
(* Encrypted inputs by their length *)

\* A payload or a surrogate blob handed to the MultiLocker by ReadMultiLocker
\* is any byte string.  Here an Encrypted is its length and whether gcm.Open
\* authenticates it under the derived key, which only a whole box can.

\* the longest Encrypted handed in
MaxDataLen == 61

AES128KeySize == 128 \div 8

\* the key sizes a KeyGenerator is set to
KeySizes == {AES128KeySize, AES256KeySize}

DataLens == 0..MaxDataLen

\* the length of what Lock returns for some plaintext: nonce, tag, salt
WholeLen(keySize, n) == n >= GcmNonceSize + GcmTagSize + keySize

\* DeriveKeySalt on a passphrase of passLen bytes and data of n bytes
DeriveKeySaltOnLen(keySize, passLen, n) ==
    IF passLen = 0 THEN "ErrEmptyPassPhrase"
    ELSE IF n <= keySize THEN "ErrInvalidData"
    ELSE "nil"

\* Unlock(key, data) on a key of keyLen bytes and data of n bytes:
\* data[nonceSize:] and cipherText[:len(cipherText)-len(key)] are slice
\* expressions, which panic when out of range
UnlockOnLen(keyLen, n, opens) ==
    IF keyLen \notin {16, 24, 32} THEN "ErrKeySize"
    ELSE IF n < GcmNonceSize THEN "panic"
    ELSE IF n - GcmNonceSize - keyLen < 0 THEN "panic"
    ELSE IF opens THEN "nil"
    ELSE "ErrOpen"

\* MultiLocker.Unlock on a payload of n bytes
UnlockOnLenOut(keySize, passLen, n, opens) ==
    IF n = 0 THEN "ErrNoPayload"
    ELSE IF DeriveKeySaltOnLen(keySize, passLen, n) # "nil" THEN "ErrInvalidPassword"
    ELSE IF UnlockOnLen(keySize, n, opens) = "panic" THEN "panic"
    ELSE IF UnlockOnLen(keySize, n, opens) # "nil" THEN "ErrInvalidPassword"
    ELSE "nil"

\* MultiLocker.EnableUpdate on a payload of n bytes
EnableUpdateOnLenOut(keySize, passLen, n, opens) ==
    IF n = 0 THEN "ErrNoPayload"
    ELSE IF DeriveKeySaltOnLen(keySize, passLen, n) # "nil"
        THEN DeriveKeySaltOnLen(keySize, passLen, n)
    ELSE IF UnlockOnLen(keySize, n, opens) = "panic" THEN "panic"
    ELSE IF UnlockOnLen(keySize, n, opens) # "nil" THEN "ErrInvalidPassword"
    ELSE "nil"

\* MultiLocker.Lock on an instance that holds a payload of n > 0 bytes
LockOnLenOut(keySize, passLen, n, opens) ==
    IF DeriveKeySaltOnLen(keySize, passLen, n) # "nil"
        THEN DeriveKeySaltOnLen(keySize, passLen, n)
    ELSE IF UnlockOnLen(keySize, n, opens) = "panic" THEN "panic"
    ELSE IF UnlockOnLen(keySize, n, opens) # "nil" THEN "ErrInvalidPassword"
    ELSE "nil"

\* MultiLocker.SurrogateUnlock of an id of the table: its blob has k bytes, the
\* payload n bytes; the base passphrase a blob wraps is not empty
SurrogateUnlockOnLenOut(keySize, passLen, k, blobOpens, n, opens) ==
    IF n = 0 THEN "ErrNoPayload"
    ELSE IF DeriveKeySaltOnLen(keySize, passLen, k) # "nil"
        THEN DeriveKeySaltOnLen(keySize, passLen, k)
    ELSE IF UnlockOnLen(keySize, k, blobOpens) = "panic" THEN "panic"
    ELSE IF UnlockOnLen(keySize, k, blobOpens) # "nil" THEN "ErrInvalidPassword"
    ELSE IF DeriveKeySaltOnLen(keySize, 1, n) # "nil" THEN DeriveKeySaltOnLen(keySize, 1, n)
    ELSE IF UnlockOnLen(keySize, n, opens) = "panic" THEN "panic"
    ELSE IF UnlockOnLen(keySize, n, opens) # "nil" THEN "ErrInvalidPassword"
    ELSE "nil"

\* WriteMultiLocker.SurrogateLock of an id of the table: the error of
\* DeriveKeySalt is dropped, and Unlock gets the nil key it returned
SurrogateLockOnLenOut(keySize, passLen, k, blobOpens, n, opens) ==
    LET baseKeyLen == IF DeriveKeySaltOnLen(keySize, 1, n) = "nil" THEN keySize ELSE 0 IN
    IF n = 0 THEN "ErrNoPayload"
    ELSE IF DeriveKeySaltOnLen(keySize, passLen, k) # "nil"
        THEN DeriveKeySaltOnLen(keySize, passLen, k)
    ELSE IF UnlockOnLen(keySize, k, blobOpens) = "panic" THEN "panic"
    ELSE IF UnlockOnLen(keySize, k, blobOpens) # "nil" THEN "ErrInvalidPassword"
    ELSE IF UnlockOnLen(baseKeyLen, n, opens) = "panic" THEN "panic"
    ELSE IF UnlockOnLen(baseKeyLen, n, opens) # "nil" THEN "ErrInvalidPassword"
    ELSE "nil"

Probed(op, keySize, passLen, k, blobOpens, n, opens, out) ==
    /\ probe' = [op |-> op, keySize |-> keySize, passLen |-> passLen, blobLen |-> k,
                 blobOpens |-> blobOpens, payloadLen |-> n, payloadOpens |-> opens,
                 out |-> out]
    /\ UNCHANGED <<surKeys, payload, basePass, keyGen, fresh, last, calls>>

\* each probe is one call on one input
ProbeUnlock ==
    /\ probe = NoProbe
    /\ \E keySize \in KeySizes, passLen \in 0..1, n \in DataLens, opens \in BOOLEAN :
            /\ opens => WholeLen(keySize, n)
            /\ Probed("Unlock", keySize, passLen, 0, FALSE, n, opens,
                      UnlockOnLenOut(keySize, passLen, n, opens))

ProbeEnableUpdate ==
    /\ probe = NoProbe
    /\ \E keySize \in KeySizes, passLen \in 0..1, n \in DataLens, opens \in BOOLEAN :
            /\ opens => WholeLen(keySize, n)
            /\ Probed("EnableUpdate", keySize, passLen, 0, FALSE, n, opens,
                      EnableUpdateOnLenOut(keySize, passLen, n, opens))

ProbeLock ==
    /\ probe = NoProbe
    /\ \E keySize \in KeySizes, passLen \in 0..1, n \in DataLens \ {0}, opens \in BOOLEAN :
            /\ opens => WholeLen(keySize, n)
            /\ Probed("Lock", keySize, passLen, 0, FALSE, n, opens,
                      LockOnLenOut(keySize, passLen, n, opens))

ProbeSurrogateUnlock ==
    /\ probe = NoProbe
    /\ \E keySize \in KeySizes, passLen \in 0..1, k \in DataLens, blobOpens \in BOOLEAN,
           n \in DataLens, opens \in BOOLEAN :
            /\ opens => WholeLen(keySize, n)
            /\ blobOpens => WholeLen(keySize, k)
            /\ Probed("SurrogateUnlock", keySize, passLen, k, blobOpens, n, opens,
                      SurrogateUnlockOnLenOut(keySize, passLen, k, blobOpens, n, opens))

ProbeSurrogateLock ==
    /\ probe = NoProbe
    /\ \E keySize \in KeySizes, passLen \in 0..1, k \in DataLens, blobOpens \in BOOLEAN,
           n \in DataLens, opens \in BOOLEAN :
            /\ opens => WholeLen(keySize, n)
            /\ blobOpens => WholeLen(keySize, k)
            /\ Probed("SurrogateLock", keySize, passLen, k, blobOpens, n, opens,
                      SurrogateLockOnLenOut(keySize, passLen, k, blobOpens, n, opens))

\* the instance of Init stands by: the probes take the key size and the
\* lengths as their inputs and read no field of it
ProbeInit ==
    /\ Init
    /\ keyGen = ShortDelayGen

ProbeNext ==
    \/ ProbeUnlock
    \/ ProbeEnableUpdate
    \/ ProbeLock
    \/ ProbeSurrogateUnlock
    \/ ProbeSurrogateLock

SpecProbe == ProbeInit /\ [][ProbeNext]_vars

----------------------------------------------------------------------------
(* C20 *)

\* C20: for a payload and a surrogate blob of every length, Unlock,
\* EnableUpdate, Lock, SurrogateUnlock and SurrogateLock do not panic, and they
\* return an error when the payload, or the blob they read first, is shorter
\* than a nonce, a tag and a salt together.
C20_NoPanicOnTruncated ==
    probe.op # "none"
    => /\ probe.out # "panic"
       /\ ~WholeLen(probe.keySize, probe.payloadLen) => probe.out # "nil"
       /\ (probe.op \in {"SurrogateUnlock", "SurrogateLock"}
              /\ ~WholeLen(probe.keySize, probe.blobLen))
          => probe.out # "nil"

----------------------------------------------------------------------------
(* NewKeyGenerator and its options *)

\* SetIterations is given the counts 0..MaxIterations
MaxIterations == 9
\* NewKeyGenerator is given up to MaxOpts options
MaxOpts == 2

DefaultLargeIterations == 1073741824

IterationArgs == 0..MaxIterations
\* uint8 costs and block sizes around their minimum
CostArgs == {DefaultCpuCost - 1, DefaultCpuCost, DefaultCpuCost + 1}
BlockSizeArgs == {DefaultRelBlockSize - 1, DefaultRelBlockSize, DefaultRelBlockSize + 1}

\* the GeneratorOpt values callers build
GeneratorOpts ==
    {[opt |-> o, arg |-> 0] :
        o \in {"SetAES256KeySize", "SetAES128KeySize",
               "SetLongDelayIterations", "SetShortDelayIterations"}}
    \cup {[opt |-> "SetIterations", arg |-> n] : n \in IterationArgs}
    \cup {[opt |-> "SetCPUCost", arg |-> c] : c \in CostArgs}
    \cup {[opt |-> "SetRelativeBlockSize", arg |-> s] : s \in BlockSizeArgs}

OptLists == UNION {[1..k -> GeneratorOpts] : k \in 0..MaxOpts}

\* opt(gen): the error the option returns and the generator as it leaves it
ApplyOpt(gen, o) ==
    CASE o.opt = "SetAES256KeySize" ->
            [err |-> "nil", gen |-> [gen EXCEPT !.aesKeySize = AES256KeySize]]
      [] o.opt = "SetAES128KeySize" ->
            [err |-> "nil", gen |-> [gen EXCEPT !.aesKeySize = AES128KeySize]]
      [] o.opt = "SetLongDelayIterations" ->
            [err |-> "nil", gen |-> [gen EXCEPT !.iterations = DefaultLargeIterations]]
      [] o.opt = "SetShortDelayIterations" ->
            [err |-> "nil", gen |-> [gen EXCEPT !.iterations = DefaultInteractiveIterations]]
      [] o.opt = "SetIterations" ->
            IF o.arg <= 1 THEN [err |-> "iterations cannot be <= 1", gen |-> gen]
            ELSE IF o.arg % 2 # 0 THEN [err |-> "iterations must be a power of 2", gen |-> gen]
            ELSE [err |-> "nil", gen |-> [gen EXCEPT !.iterations = o.arg]]
      [] o.opt = "SetCPUCost" ->
            IF o.arg < DefaultCpuCost THEN [err |-> "cpu cost must be at least 1", gen |-> gen]
            ELSE [err |-> "nil", gen |-> [gen EXCEPT !.cpuCost = o.arg]]
      [] o.opt = "SetRelativeBlockSize" ->
            IF o.arg < DefaultRelBlockSize
            THEN [err |-> "relative block size must be at least 8", gen |-> gen]
            ELSE [err |-> "nil", gen |-> [gen EXCEPT !.relativeBlockSize = o.arg]]

\* for _, opt := range opts: the first error ends the loop and nil is returned
RECURSIVE ApplyOpts(_, _)
ApplyOpts(gen, opts) ==
    IF opts = <<>> THEN [err |-> "nil", gen |-> gen]
    ELSE LET r == ApplyOpt(gen, Head(opts)) IN
         IF r.err # "nil" THEN [err |-> r.err, gen |-> NilGen]
         ELSE ApplyOpts(r.gen, Tail(opts))

NewKeyGeneratorOf(opts) ==
    ApplyOpts([nil |-> FALSE, iterations |-> DefaultLargeIterations,
               relativeBlockSize |-> DefaultRelBlockSize, cpuCost |-> DefaultCpuCost,
               aesKeySize |-> AES256KeySize],
              opts)

NewKeyGenerator ==
    /\ probe = NoProbe
    /\ \E opts \in OptLists :
          probe' = [op |-> "NewKeyGenerator", opts |-> opts,
                    err |-> NewKeyGeneratorOf(opts).err, gen |-> NewKeyGeneratorOf(opts).gen]
    /\ UNCHANGED <<surKeys, payload, basePass, keyGen, fresh, last, calls>>

\* no generator has been made yet
KeyGenInit == Init /\ keyGen = NilGen

KeyGenNext == NewKeyGenerator

SpecKeyGen == KeyGenInit /\ [][KeyGenNext]_vars

RECURSIVE IsPowerOfTwo(_)
IsPowerOfTwo(n) ==
    IF n <= 1 THEN n = 1 ELSE n % 2 = 0 /\ IsPowerOfTwo(n \div 2)

----------------------------------------------------------------------------
(* C21 *)

\* C21: every KeyGenerator that NewKeyGenerator returns has an iteration count
\* greater than 1 that is a power of two, a relative block size of at least 8
\* and a CPU cost of at least 1; a SetIterations count that is not a power of
\* two greater than 1, and a block size or CPU cost below its minimum, make
\* NewKeyGenerator fail.
C21_GeneratorInvariant ==
    probe.op = "NewKeyGenerator" =>
        /\ probe.err = "nil" =>
              /\ probe.gen.iterations > 1
              /\ IsPowerOfTwo(probe.gen.iterations)
              /\ probe.gen.relativeBlockSize >= DefaultRelBlockSize
              /\ probe.gen.cpuCost >= DefaultCpuCost
        /\ \A i \in 1..Len(probe.opts) :
              LET o == probe.opts[i] IN
              (\/ o.opt = "SetIterations" /\ ~(o.arg > 1 /\ IsPowerOfTwo(o.arg))
               \/ o.opt = "SetRelativeBlockSize" /\ o.arg < DefaultRelBlockSize
               \/ o.opt = "SetCPUCost" /\ o.arg < DefaultCpuCost)
              => probe.err # "nil"

----------------------------------------------------------------------------
(* GenerateKey, Lock, DeriveKey and Unlock on their own (TestLockUnlock) *)

\* the generators of NewKeyGenerator with one of the options that cannot fail
FixedOpts ==
    {o \in GeneratorOpts :
        o.opt \in {"SetAES256KeySize", "SetAES128KeySize",
                   "SetLongDelayIterations", "SetShortDelayIterations"}}

OptGenerators == {NewKeyGeneratorOf(<<o>>).gen : o \in FixedOpts}

\* the plaintexts handed to Lock, the empty one among them
LockPlaintexts == Plaintexts \cup {<<>>}

\* GenerateKey with the salt that rand.Read drew: salt = make(Salt, g.aesKeySize)
GenerateKeyOf(g, pass, salt) ==
    IF GenerateKeyErr(g, pass) # "nil"
    THEN [err |-> GenerateKeyErr(g, pass), key |-> NoKey, salt |-> 0, saltLen |-> 0]
    ELSE [err |-> "nil", key |-> Stretch(g, pass, salt), salt |-> salt,
          saltLen |-> g.aesKeySize]

TestGenerateKey ==
    /\ probe = NoProbe
    /\ \E g \in OptGenerators, pass \in Passphrases, salt \in Salts :
          probe' = [op |-> "GenerateKey", gen |-> g, pass |-> pass,
                    generated |-> GenerateKeyOf(g, pass, salt)]
    /\ UNCHANGED <<surKeys, payload, basePass, keyGen, fresh, last, calls>>

TestLock ==
    /\ probe.op = "GenerateKey"
    /\ probe.generated.err = "nil"
    /\ \E m \in LockPlaintexts :
          probe' = [op |-> "Lock", gen |-> probe.gen, pass |-> probe.pass,
                    generated |-> probe.generated, data |-> m,
                    encrypted |-> PrimLock(probe.generated.key, probe.generated.salt, m)]
    /\ UNCHANGED <<surKeys, payload, basePass, keyGen, fresh, last, calls>>

TestDeriveKey ==
    /\ probe.op = "Lock"
    /\ \E pass2 \in Passphrases :
          probe' = [op |-> "DeriveKey", gen |-> probe.gen, pass |-> probe.pass,
                    generated |-> probe.generated, data |-> probe.data,
                    encrypted |-> probe.encrypted, pass2 |-> pass2,
                    err2 |-> DeriveKeyErr(probe.gen, pass2, probe.encrypted),
                    key2 |-> DeriveKey(probe.gen, pass2, probe.encrypted)]
    /\ UNCHANGED <<surKeys, payload, basePass, keyGen, fresh, last, calls>>

TestUnlock ==
    /\ probe.op = "DeriveKey"
    /\ probe' = [op |-> "Unlock", gen |-> probe.gen, pass |-> probe.pass,
                 generated |-> probe.generated, data |-> probe.data,
                 encrypted |-> probe.encrypted, pass2 |-> probe.pass2,
                 err2 |-> probe.err2, key2 |-> probe.key2,
                 unencrypted |-> PrimUnlock(probe.key2, probe.encrypted)]
    /\ UNCHANGED <<surKeys, payload, basePass, keyGen, fresh, last, calls>>

LockUnlockInit == Init /\ keyGen = NilGen

LockUnlockNext ==
    \/ TestGenerateKey
    \/ TestLock
    \/ TestDeriveKey
    \/ TestUnlock

SpecLockUnlock == LockUnlockInit /\ [][LockUnlockNext]_vars

----------------------------------------------------------------------------
(* C22 *)

\* C22: for every non-empty passphrase p and plaintext m, with (key, salt) =
\* GenerateKey(p): the salt is as long as the key; DeriveKey(p, Lock(key, salt,
\* m)) returns the same key; Unlock with that key on Lock(key, salt, m) returns
\* exactly m; Unlock with a key derived from any other passphrase returns an
\* error.
C22_LockUnlockRoundTrip ==
    /\ (probe.op \in {"GenerateKey", "Lock", "DeriveKey", "Unlock"}
            /\ Len(probe.pass) > 0) =>
          /\ probe.generated.err = "nil"
          /\ probe.generated.saltLen = probe.generated.key.len
    /\ (probe.op \in {"DeriveKey", "Unlock"} /\ probe.pass2 = probe.pass) =>
          /\ probe.err2 = "nil"
          /\ probe.key2 = probe.generated.key
    /\ (probe.op = "Unlock" /\ probe.pass2 = probe.pass) =>
          probe.unencrypted = [err |-> "nil", data |-> probe.data]
    /\ (probe.op = "Unlock" /\ probe.pass2 # probe.pass) =>
          probe.unencrypted.err # "nil"

\* a plaintext came back from Unlock under the key derived again from the passphrase
C22_Witness ==
    /\ probe.op = "Unlock"
    /\ probe.pass2 = probe.pass
    /\ probe.gen.aesKeySize = AES128KeySize
    /\ Len(probe.data) > 0
    /\ probe.unencrypted.data = probe.data

----------------------------------------------------------------------------
(* The primitive steps of a call: GenerateKey, DeriveKey (DeriveKeySalt),  *)
(* Lock and Unlock, in the order the method reaches them                   *)

UnlockSteps(bp) ==
    IF validateInitialized # "nil" THEN <<>>
    ELSE IF DeriveKeyErr(keyGen, bp, payload) # "nil" THEN <<"DeriveKey">>
    ELSE <<"DeriveKey", "Unlock">>

EnableUpdateSteps(pass) ==
    IF validateInitialized # "nil" THEN <<>>
    ELSE IF DeriveKeyErr(keyGen, pass, payload) # "nil" THEN <<"DeriveKey">>
    ELSE <<"DeriveKey", "Unlock">>

\* the steps SurrogateUnlock and SurrogateLock share
UnwrapSurrogateSteps(id, pass) ==
    IF validateInitialized # "nil" THEN <<>>
    ELSE IF id \notin DOMAIN surKeys THEN <<>>
    ELSE IF DeriveKeyErr(keyGen, pass, surKeys[id]) # "nil" THEN <<"DeriveKey">>
    ELSE <<"DeriveKey", "Unlock">>

SurrogateUnlockSteps(id, pass) ==
    LET sur == UnwrapSurrogate(id, pass) IN
    IF sur.err # "nil" THEN UnwrapSurrogateSteps(id, pass)
    ELSE IF DeriveKeyErr(keyGen, sur.data, payload) # "nil"
        THEN UnwrapSurrogateSteps(id, pass) \o <<"DeriveKey">>
    ELSE UnwrapSurrogateSteps(id, pass) \o <<"DeriveKey", "Unlock">>

\* Unlock is called whatever DeriveKeySalt returned
SurrogateLockSteps(id, pass) ==
    IF UnwrapSurrogate(id, pass).err # "nil" THEN UnwrapSurrogateSteps(id, pass)
    ELSE IF SurrogateLockErr(id, pass) # "nil"
        THEN UnwrapSurrogateSteps(id, pass) \o <<"DeriveKey", "Unlock">>
    ELSE UnwrapSurrogateSteps(id, pass) \o <<"DeriveKey", "Unlock", "Lock">>

\* AddSurrogatePass that generates the key before it validates the instance
AddSurrogatePassStepsKeyFirst(id, pass) ==
    IF Len(id) > idFieldLen \/ Len(id) = 0 THEN <<>>
    ELSE IF id \in DOMAIN surKeys THEN <<>>
    ELSE IF validateForUpdate # "nil" THEN <<"GenerateKey">>
    ELSE IF GenerateKeyErr(keyGen, pass) # "nil" THEN <<"GenerateKey">>
    ELSE <<"GenerateKey", "Lock">>

AddSurrogatePassSteps(id, pass) ==
    IF Len(id) > idFieldLen \/ Len(id) = 0 THEN <<>>
    ELSE IF id \in DOMAIN surKeys THEN <<>>
    ELSE IF validateForUpdate # "nil" THEN <<>>
    ELSE IF GenerateKeyErr(keyGen, pass) # "nil" THEN <<"GenerateKey">>
    ELSE <<"GenerateKey", "Lock">>

RemoveSurrogatePassSteps(id) == <<>>

UpdateSurrogatePassSteps(id, newPass) ==
    IF Len(id) > idFieldLen THEN <<>>
    ELSE IF id \notin DOMAIN surKeys THEN <<>>
    ELSE IF validateForUpdate # "nil" THEN <<>>
    ELSE IF GenerateKeyErr(keyGen, newPass) # "nil" THEN <<"GenerateKey">>
    ELSE <<"GenerateKey", "Lock">>

InvalidateLockSteps(pass) ==
    IF validateHasGenerator # "nil" THEN <<>>
    ELSE IF GenerateKeyErr(keyGen, pass) # "nil" THEN <<"GenerateKey">>
    ELSE <<"GenerateKey", "Lock">>

LockSteps(bp) ==
    LET seal == IF GenerateKeyErr(keyGen, bp) # "nil"
                THEN <<"GenerateKey">>
                ELSE <<"GenerateKey", "Lock">>
    IN
    IF validateHasGenerator # "nil" THEN <<>>
    ELSE IF Cardinality(DOMAIN surKeys) > 0 \/ EncLen(payload) > 0
        THEN IF DeriveKeySaltErr(keyGen, bp, payload) # "nil" THEN <<"DeriveKey">>
             ELSE IF PrimUnlock(DeriveKeySalt(keyGen, bp, payload).key, payload).err # "nil"
                 THEN <<"DeriveKey", "Unlock">>
             ELSE <<"DeriveKey", "Unlock">> \o seal
    ELSE seal

\* the errors that report a state the caller should not have called in
StateErrors ==
    {"ErrNoPayload", "ErrUpdateNotEnabled", "ErrIdNotFound", "ErrIdNotPresent",
     "ErrIdExists", "ErrIdRange", "ErrIdTooLong"}

----------------------------------------------------------------------------
(* C23 *)

\* C23: a call of a MultiLocker operation that ends in a state error (no
\* payload set, update not enabled, id not found, id already exists, id empty
\* or too long) performs no GenerateKey, DeriveKey, Lock or Unlock step: the
\* state is validated before any key is derived and before anything is sealed
\* or opened.
C23_StateErrorsBeforeCrypto ==
    /\ \A bp \in Passphrases :
          /\ UnlockResult(bp).err \in StateErrors => UnlockSteps(bp) = <<>>
          /\ EnableUpdateErr(bp) \in StateErrors => EnableUpdateSteps(bp) = <<>>
          /\ LockErr(bp) \in StateErrors => LockSteps(bp) = <<>>
          /\ InvalidateLockErr(bp) \in StateErrors => InvalidateLockSteps(bp) = <<>>
    /\ \A id \in IDs :
          /\ RemoveSurrogatePassErr(id) \in StateErrors => RemoveSurrogatePassSteps(id) = <<>>
          /\ \A pass \in Passphrases :
                /\ AddSurrogatePassErr(id, pass) \in StateErrors
                      => AddSurrogatePassSteps(id, pass) = <<>>
                /\ UpdateSurrogatePassErr(id, pass) \in StateErrors
                      => UpdateSurrogatePassSteps(id, pass) = <<>>
                /\ SurrogateUnlockResult(id, pass).err \in StateErrors
                      => SurrogateUnlockSteps(id, pass) = <<>>
                /\ SurrogateLockErr(id, pass) \in StateErrors
                      => SurrogateLockSteps(id, pass) = <<>>

\* UpdateSurrogatePass returned the update-not-enabled error for an id of the
\* table: its id checks passed and no key was generated
C23_Witness ==
    /\ last.op = "UpdateSurrogatePass"
    /\ last.err = "ErrUpdateNotEnabled"
    /\ last.nKeys > 0
    /\ Len(basePass) = 0
    /\ \E id \in DOMAIN surKeys, pass \in Passphrases :
          /\ Len(pass) > 0
          /\ UpdateSurrogatePassErr(id, pass) = "ErrUpdateNotEnabled"
          /\ UpdateSurrogatePassSteps(id, pass) = <<>>

----------------------------------------------------------------------------
(* C24 *)

\* C24: every MultiLocker operation that takes a passphrase (Lock,
\* InvalidateLock, EnableUpdate, Unlock, SurrogateUnlock, AddSurrogatePass,
\* UpdateSurrogatePass, SurrogateLock), called with a zero-length passphrase
\* in a state that meets its other preconditions, returns the empty-passphrase
\* error (not the invalid-password error) and changes no state.
C24_EmptyPassphraseRejected ==
    [][LET rejected ==
               /\ last'.err = "ErrEmptyPassPhrase"
               /\ UNCHANGED <<surKeys, payload, basePass, keyGen>>
       IN
       /\ (last'.op = "Lock" /\ validateHasGenerator = "nil"
              /\ \E m \in Plaintexts : Lock(<<>>, m)) => rejected
       /\ (last'.op = "InvalidateLock" /\ validateHasGenerator = "nil"
              /\ \E m \in Plaintexts : InvalidateLock(<<>>, m)) => rejected
       /\ (last'.op = "EnableUpdate" /\ validateInitialized = "nil"
              /\ EnableUpdate(<<>>)) => rejected
       /\ (last'.op = "Unlock" /\ validateInitialized = "nil"
              /\ Unlock(<<>>)) => rejected
       /\ (last'.op = "SurrogateUnlock" /\ validateInitialized = "nil"
              /\ \E id \in DOMAIN surKeys : SurrogateUnlock(id, <<>>)) => rejected
       /\ (last'.op = "SurrogateLock" /\ validateInitialized = "nil"
              /\ \E id \in DOMAIN surKeys, m \in Plaintexts : SurrogateLock(id, <<>>, m))
              => rejected
       /\ (last'.op = "AddSurrogatePass" /\ validateForUpdate = "nil"
              /\ \E id \in IDs :
                    ValidID(id) /\ id \notin DOMAIN surKeys /\ AddSurrogatePass(id, <<>>))
              => rejected
       /\ (last'.op = "UpdateSurrogatePass" /\ validateForUpdate = "nil"
              /\ \E id \in DOMAIN surKeys : UpdateSurrogatePass(id, <<>>)) => rejected
      ]_vars

----------------------------------------------------------------------------
(* C25 *)

\* C25: the first Lock(basePass, m) on a MultiLocker that has a generator and
\* no payload yet succeeds for every non-empty passphrase (there is nothing to
\* check the passphrase against), stores the payload sealed under basePass and
\* caches basePass, so that AddSurrogatePass succeeds right after it without
\* EnableUpdate; as long as no payload has been set, AddSurrogatePass fails and
\* adds nothing.
C25_FirstLockEnablesUpdate ==
    [][/\ (last'.op = "Lock" /\ EncLen(payload) = 0 /\ ~keyGen.nil) =>
             \A bp \in Passphrases \ {<<>>}, m \in Plaintexts :
                 Lock(bp, m) =>
                     /\ last'.err = "nil"
                     /\ UnlockResult(bp)' = [err |-> "nil", data |-> m]
                     /\ basePass' = bp
                     /\ \A id \in IDs, p \in Passphrases \ {<<>>} :
                           ValidID(id) => AddSurrogatePassErr(id, p)' = "nil"
       /\ (last'.op = "AddSurrogatePass" /\ EncLen(payload) = 0) =>
             /\ last'.err # "nil"
             /\ UNCHANGED surKeys
      ]_vars

\* a surrogate was added right after the first Lock: update mode was on
\* although EnableUpdate has not been called since the instance was made
C25_Witness ==
    /\ last.op = "AddSurrogatePass"
    /\ last.err = "nil"
    /\ last.nKeys = 0
    /\ last.wasUpd
    /\ ~fresh
    /\ DOMAIN surKeys # {}
    /\ \A id \in DOMAIN surKeys : surKeys[id].data = basePass
    /\ OpensPayload(basePass)

----------------------------------------------------------------------------
(* ListKeyIDs over a table of several ids *)

\* ids of which one is a prefix of two others
ListIDs == {<<1>>, <<1, 1>>, <<1, 2>>, <<2>>}

\* the orders in which "for id := range l.surKeys" can visit the keys of the map
RangeOrders ==
    {f \in [1..Cardinality(DOMAIN surKeys) -> DOMAIN surKeys] :
        \A i, j \in DOMAIN f : i # j => f[i] # f[j]}

RECURSIVE InsertString(_, _)
InsertString(x, s) ==
    IF s = <<>> THEN <<x>>
    ELSE IF StrLess(x, Head(s)) THEN <<x>> \o s
    ELSE <<Head(s)>> \o InsertString(x, Tail(s))

\* sort.Strings on a slice
RECURSIVE SortSlice(_)
SortSlice(s) ==
    IF s = <<>> THEN <<>> ELSE InsertString(Head(s), SortSlice(Tail(s)))

\* ListKeyIDs that returns the ids as the range visited them
ListKeyIDsOfUnsorted(order) == order

\* ListKeyIDs when the range visits the keys in this order: ids[i] = id for
\* each key, then sort.Strings(ids)
ListKeyIDsOf(order) == SortSlice(order)

ListInit == Init /\ keyGen = ShortDelayGen

ListLock == \E m \in Plaintexts : Lock(<<1>>, m)
ListAdd == \E id \in ListIDs : AddSurrogatePass(id, <<2>>)
ListRemove == \E id \in ListIDs : RemoveSurrogatePass(id)
ListInvalidate == \E m \in Plaintexts : InvalidateLock(<<1>>, m)

ListNext ==
    \/ ListLock
    \/ ListAdd
    \/ ListRemove
    \/ ListInvalidate

SpecList == ListInit /\ [][ListNext]_vars

----------------------------------------------------------------------------
(* C26 *)

\* C26: ListKeyIDs returns exactly the ids of the surrogate table, each once,
\* with no extra and no empty entry, in ascending lexicographic order whatever
\* the order in which the ids were added or the map is visited; it is empty
\* for a new MultiLocker and after InvalidateLock.
C26_ListKeyIDsSorted ==
    /\ \A order \in RangeOrders :
          \A ids \in {ListKeyIDsOf(order)} :
              /\ Len(ids) = Cardinality(DOMAIN surKeys)
              /\ {ids[i] : i \in 1..Len(ids)} = DOMAIN surKeys
              /\ \A i \in 1..Len(ids) : Len(ids[i]) > 0
              /\ \A i, j \in 1..Len(ids) : i < j => StrLess(ids[i], ids[j])
              /\ ids = ListKeyIDs
    /\ last.op = "New" => ListKeyIDs = <<>>
    /\ (last.op = "InvalidateLock" /\ last.err = "nil") => ListKeyIDs = <<>>

\* the four ids are in the table, the prefix first, and the map can be visited
\* in an order that is not the sorted one
C26_Witness ==
    /\ DOMAIN surKeys = ListIDs
    /\ ListKeyIDs = <<<<1>>, <<1, 1>>, <<1, 2>>, <<2>>>>
    /\ \E order \in RangeOrders : order # ListKeyIDs /\ ListKeyIDsOf(order) = ListKeyIDs

----------------------------------------------------------------------------
(* C27 *)

\* C27: DisableUpdate can be called in every state and never fails; after it
\* no base passphrase is cached (update mode is off), the payload and the
\* surrogate table are what they were, Unlock and SurrogateUnlock return what
\* they returned before (so they still succeed with correct credentials), and
\* a second DisableUpdate changes nothing.
C27_DisableUpdateFrame ==
    [][/\ ENABLED DisableUpdate
       /\ last'.op = "DisableUpdate" =>
          /\ last'.err = "nil"
          /\ basePass' = <<>>
          /\ validateForUpdate' # "nil"
          /\ UNCHANGED <<surKeys, payload, keyGen>>
          /\ \A bp \in Passphrases : UnlockResult(bp)' = UnlockResult(bp)
          /\ \A id \in IDs, p \in Passphrases :
                SurrogateUnlockResult(id, p)' = SurrogateUnlockResult(id, p)
          /\ last.op = "DisableUpdate" => UNCHANGED <<surKeys, payload, basePass, keyGen, fresh>>
      ]_vars

\* DisableUpdate was called in update mode on a locker with a surrogate, and
\* both the base passphrase and the surrogate still open the payload
C27_Witness ==
    /\ last.op = "DisableUpdate"
    /\ last.wasUpd
    /\ Len(basePass) = 0
    /\ \E bp \in Passphrases : UnlockResult(bp).err = "nil"
    /\ \E id \in DOMAIN surKeys, p \in Passphrases : SurrogateUnlockResult(id, p).err = "nil"

----------------------------------------------------------------------------
(* C28 *)

\* every entry of the table other than the one of id is what it was
OtherEntriesUnchanged(id) ==
    \A i \in (DOMAIN surKeys \cup DOMAIN surKeys') \ {id} :
        /\ i \in DOMAIN surKeys
        /\ i \in DOMAIN surKeys'
        /\ surKeys'[i] = surKeys[i]

\* C28: AddSurrogatePass, RemoveSurrogatePass and UpdateSurrogatePass, whether
\* they succeed or fail, leave the payload and the cached base passphrase
\* unchanged, and leave every surrogate entry other than the one of the given
\* id unchanged.
C28_TableMutatorsFrame ==
    [][last'.op \in TableMutators =>
          /\ UNCHANGED <<payload, basePass>>
          /\ surKeys' # surKeys =>
                /\ last'.op = "AddSurrogatePass" =>
                      \A id \in IDs, p \in Passphrases :
                          AddSurrogatePass(id, p) => OtherEntriesUnchanged(id)
                /\ last'.op = "RemoveSurrogatePass" =>
                      \A id \in IDs : RemoveSurrogatePass(id) => OtherEntriesUnchanged(id)
                /\ last'.op = "UpdateSurrogatePass" =>
                      \A id \in IDs, p \in Passphrases :
                          UpdateSurrogatePass(id, p) => OtherEntriesUnchanged(id)
      ]_vars

\* a second surrogate was added: the first entry is still in the table
C28_Witness ==
    /\ last.op = "AddSurrogatePass"
    /\ last.err = "nil"
    /\ last.nKeys = 1
    /\ Cardinality(DOMAIN surKeys) = 2
    /\ EncLen(payload) > 0
    /\ Len(basePass) > 0

----------------------------------------------------------------------------
(* C29 *)

\* C29: in every reachable state in which update mode is enabled, the cached
\* base passphrase opens the current payload: no sequence of operations leaves
\* a stale base passphrase cached that a later AddSurrogatePass or
\* UpdateSurrogatePass would wrap.
C29_CachedBaseOpensPayload ==
    Len(basePass) > 0 => OpensPayload(basePass)

----------------------------------------------------------------------------
(* InvalidateLock and SurrogateLock when the sealing primitive can fail *)

\* Lock(key, salt, data): the error; aes.NewCipher rejects a key that has not
\* an AES key size, rand.Read of the nonce can fail (randOk is what it did)
PrimLockErr(key, randOk) ==
    IF ~AesKeyOk(key) THEN "ErrKeySize"
    ELSE IF ~randOk THEN "ErrRand"
    ELSE "nil"

\* l.payload, err = Lock(key, salt, unencrypted): the payload is assigned
\* whatever Lock returned, nil when it failed
InvalidateLockRand(pass, unencrypted, randOk) ==
    LET err == InvalidateLockErr(pass) IN
    /\ IF err # "nil"
       THEN /\ UNCHANGED <<payload, surKeys>>
            /\ last' = Result("InvalidateLock", err)
       ELSE \E salt \in Salts :
               LET key == Stretch(keyGen, pass, salt)
                   sealErr == PrimLockErr(key, randOk)
               IN
               /\ payload' = IF sealErr = "nil"
                             THEN PrimLock(key, salt, unencrypted)
                             ELSE EmptyEnc
               /\ IF sealErr = "nil" THEN surKeys' = << >> ELSE UNCHANGED surKeys
               /\ last' = Result("InvalidateLock", sealErr)
    /\ UNCHANGED others
    /\ UNCHANGED <<basePass, keyGen, fresh>>

SurrogateLockRand(id, pass, unencrypted, randOk) ==
    LET err == SurrogateLockErr(id, pass)
        ks == DeriveKeySalt(keyGen, UnwrapSurrogate(id, pass).data, payload)
        sealErr == PrimLockErr(ks.key, randOk)
    IN
    /\ IF err # "nil"
       THEN /\ UNCHANGED payload
            /\ last' = Result("SurrogateLock", err)
       ELSE /\ payload' = IF sealErr = "nil"
                          THEN PrimLock(ks.key, ks.salt, unencrypted)
                          ELSE EmptyEnc
            /\ last' = Result("SurrogateLock", sealErr)
    /\ UNCHANGED others
    /\ UNCHANGED <<surKeys, basePass, keyGen, fresh>>

DoInvalidateLockRand ==
    \E bp \in Passphrases, m \in Plaintexts, randOk \in BOOLEAN :
        InvalidateLockRand(bp, m, randOk)
DoSurrogateLockRand ==
    \E id \in IDs, p \in Passphrases, m \in Plaintexts, randOk \in BOOLEAN :
        SurrogateLockRand(id, p, m, randOk)

SealNext ==
    \/ DoLock
    \/ DoAddSurrogatePass
    \/ DoInvalidateLockRand
    \/ DoSurrogateLockRand

SpecSeal == Init /\ [][SealNext]_vars

----------------------------------------------------------------------------
(* C30 *)

\* C30: whenever InvalidateLock or SurrogateLock returns an error, a failure
\* of the sealing primitive after the passphrase checks passed included, the
\* payload and the surrogate table are exactly what they were before the
\* call: neither operation leaves the MultiLocker with an empty payload, or
\* with a replaced payload and an untouched table.
C30_FailedRelockNoMutation ==
    [][(last'.op \in {"InvalidateLock", "SurrogateLock"} /\ last'.err # "nil")
          => UNCHANGED <<payload, surKeys>>]_vars

----------------------------------------------------------------------------
(* C31 *)

\* C31: in every state reachable from NewMultiLocker through the public
\* operations, a surrogate table that is not empty implies that a payload is
\* set; AddSurrogatePass, RemoveSurrogatePass, UpdateSurrogatePass,
\* SurrogateUnlock and SurrogateLock all fail while no payload is set.
C31_TableImpliesPayload ==
    /\ DOMAIN surKeys # {} => EncLen(payload) > 0
    /\ EncLen(payload) = 0 =>
          \A id \in IDs :
              /\ RemoveSurrogatePassErr(id) # "nil"
              /\ \A p \in Passphrases :
                    /\ AddSurrogatePassErr(id, p) # "nil"
                    /\ UpdateSurrogatePassErr(id, p) # "nil"
                    /\ SurrogateUnlockResult(id, p).err # "nil"
                    /\ SurrogateLockErr(id, p) # "nil"

----------------------------------------------------------------------------
(* C32 *)

\* C32: after any sequence of operations, Unlock with the passphrase of the
\* most recent successful Lock or InvalidateLock returns the plaintext of the
\* most recent successful write (Lock, InvalidateLock or SurrogateLock), and
\* every successful SurrogateUnlock returns that same plaintext; a failed
\* write never changes what is returned.  Step by step: a successful Lock or
\* InvalidateLock makes Unlock with its passphrase return its plaintext; a
\* successful SurrogateLock makes Unlock return its plaintext for the
\* passphrases that opened the payload before; every other step, a failed
\* write included, leaves the result of Unlock as it was; and a SurrogateUnlock
\* that succeeds returns what Unlock returns.
C32_UnlockReturnsLastWrite ==
    [][/\ (last'.op = "Lock" /\ last'.err = "nil") =>
             \A bp \in Passphrases, m \in Plaintexts :
                 Lock(bp, m) => UnlockResult(bp)' = [err |-> "nil", data |-> m]
       /\ (last'.op = "InvalidateLock" /\ last'.err = "nil") =>
             \A bp \in Passphrases, m \in Plaintexts :
                 InvalidateLock(bp, m) => UnlockResult(bp)' = [err |-> "nil", data |-> m]
       /\ (last'.op = "SurrogateLock" /\ last'.err = "nil") =>
             \A id \in IDs, p \in Passphrases, m \in Plaintexts :
                 SurrogateLock(id, p, m) =>
                     \A bp \in Passphrases :
                         UnlockResult(bp).err = "nil"
                             => UnlockResult(bp)' = [err |-> "nil", data |-> m]
       /\ (last'.op \notin {"Lock", "InvalidateLock", "SurrogateLock"} \/ last'.err # "nil") =>
             \A bp \in Passphrases : UnlockResult(bp)' = UnlockResult(bp)
       /\ (last'.op = "SurrogateUnlock" /\ last'.err = "nil") =>
             \A id \in DOMAIN surKeys, p \in Passphrases :
                 SurrogateUnlockResult(id, p).err = "nil" =>
                     \E bp \in Passphrases :
                         UnlockResult(bp) = SurrogateUnlockResult(id, p)
      ]_vars

----------------------------------------------------------------------------
(* The reading operations as calls of their own *)

\* ListKeyIDs(): a new slice is returned, the map is only ranged over
CallListKeyIDs ==
    /\ last' = Result("ListKeyIDs", "nil")
    /\ UNCHANGED others
    /\ UNCHANGED <<surKeys, payload, basePass, keyGen, fresh>>

\* Write(w): l.mapper() takes the address of the fields of l.keyGen, which
\* panics on a nil generator; otherwise the error is the writer's (wOk is
\* whether w accepted the bytes)
WriteErr(wOk) ==
    IF keyGen.nil THEN "panic"
    ELSE IF ~wOk THEN "ErrWriter"
    ELSE "nil"

Write(wOk) ==
    /\ last' = Result("Write", WriteErr(wOk))
    /\ UNCHANGED others
    /\ UNCHANGED <<surKeys, payload, basePass, keyGen, fresh>>

DoWrite == \E wOk \in BOOLEAN : Write(wOk)

ReadOnlyNext ==
    \/ DoLock
    \/ DoAddSurrogatePass
    \/ DisableUpdate
    \/ DoUnlock
    \/ DoSurrogateUnlock
    \/ CallListKeyIDs
    \/ DoWrite

SpecReadOnly == Init /\ [][ReadOnlyNext]_vars

----------------------------------------------------------------------------
(* C33 *)

\* C33: Unlock, SurrogateUnlock, ListKeyIDs and Write are read-only: whether
\* they succeed or fail, the payload, the surrogate table, the generator's
\* settings and the cached base passphrase are what they were, so an unlock
\* with the correct base or surrogate passphrase never enables update mode.
C33_ReadersReadOnly ==
    [][last'.op \in {"Unlock", "SurrogateUnlock", "ListKeyIDs", "Write"} =>
          /\ UNCHANGED <<payload, surKeys, keyGen, basePass>>
          /\ validateForUpdate' = validateForUpdate
      ]_vars

\* Unlock succeeded with update mode off, and update mode is still off
C33_Witness ==
    /\ last.op = "Unlock"
    /\ last.err = "nil"
    /\ ~last.wasUpd
    /\ last.nKeys > 0
    /\ Len(basePass) = 0
    /\ validateForUpdate = "ErrUpdateNotEnabled"

----------------------------------------------------------------------------
(* DeriveKey, DeriveKeySalt and DeriveSalt on the bytes of the blob *)

\* the blobs handed to the three functions, one of every length: the i-th byte
\* is i, so that no two positions hold the same byte
DataBlobs == {[i \in 1..n |-> i] : n \in DataLens}

\* a salt of n bytes as rand.Read fills it, one for every draw s
SaltBytes(n, s) == [i \in 1..n |-> (s * i) % 256]

\* the bytes the nonce and the sealed box of Lock are filled with
ByteFills == {0, 255}

\* Lock on bytes: nonce || ciphertext || tag from gcm.Seal(nonce, nonce, data, nil),
\* then the salt appended
LockBytes(salt, data, fill) ==
    [i \in 1..(GcmNonceSize + Len(data) + GcmTagSize) |-> fill] \o salt

\* data[len(data)-int(g.aesKeySize):]
TrailingBytes(g, data) == SubSeq(data, Len(data) - g.aesKeySize + 1, Len(data))

\* DeriveKeySalt that rejects only the blobs shorter than the key size
DeriveKeySaltBytesShort(g, pass, data) ==
    IF Len(pass) = 0
    THEN [err |-> "ErrEmptyPassPhrase", key |-> NoKey, salt |-> <<>>]
    ELSE IF Len(data) < g.aesKeySize
    THEN [err |-> "ErrInvalidData", key |-> NoKey, salt |-> <<>>]
    ELSE [err |-> "nil", key |-> Stretch(g, pass, TrailingBytes(g, data)),
          salt |-> TrailingBytes(g, data)]

\* DeriveKeySalt: the passphrase is looked at first, the length second, and the
\* key is scrypt.Key over the trailing bytes
DeriveKeySaltBytes(g, pass, data) ==
    IF Len(pass) = 0
    THEN [err |-> "ErrEmptyPassPhrase", key |-> NoKey, salt |-> <<>>]
    ELSE IF Len(data) <= g.aesKeySize
    THEN [err |-> "ErrInvalidData", key |-> NoKey, salt |-> <<>>]
    ELSE [err |-> "nil", key |-> Stretch(g, pass, TrailingBytes(g, data)),
          salt |-> TrailingBytes(g, data)]

\* DeriveKey: key, _, err = g.DeriveKeySalt(pass, data)
DeriveKeyBytes(g, pass, data) ==
    [err |-> DeriveKeySaltBytes(g, pass, data).err,
     key |-> DeriveKeySaltBytes(g, pass, data).key]

\* DeriveSalt: no passphrase, the length check and the trailing bytes only
DeriveSalt(g, data) ==
    IF Len(data) <= g.aesKeySize
    THEN [err |-> "ErrInvalidData", salt |-> <<>>]
    ELSE [err |-> "nil", salt |-> TrailingBytes(g, data)]

CallDeriveKey ==
    /\ probe = NoProbe
    /\ \E g \in OptGenerators, pass \in Passphrases, data \in DataBlobs :
          probe' = [op |-> "DeriveKey", gen |-> g, pass |-> pass, data |-> data,
                    locked |-> FALSE, salt |-> <<>>,
                    out |-> DeriveKeyBytes(g, pass, data)]
    /\ UNCHANGED <<surKeys, payload, basePass, keyGen, fresh, last, calls>>

CallDeriveKeySalt ==
    /\ probe = NoProbe
    /\ \E g \in OptGenerators, pass \in Passphrases, data \in DataBlobs :
          probe' = [op |-> "DeriveKeySalt", gen |-> g, pass |-> pass, data |-> data,
                    locked |-> FALSE, salt |-> <<>>,
                    out |-> DeriveKeySaltBytes(g, pass, data)]
    /\ UNCHANGED <<surKeys, payload, basePass, keyGen, fresh, last, calls>>

CallDeriveSalt ==
    /\ probe = NoProbe
    /\ \E g \in OptGenerators, data \in DataBlobs :
          probe' = [op |-> "DeriveSalt", gen |-> g, pass |-> <<>>, data |-> data,
                    locked |-> FALSE, salt |-> <<>>,
                    out |-> DeriveSalt(g, data)]
    /\ UNCHANGED <<surKeys, payload, basePass, keyGen, fresh, last, calls>>

\* DeriveKeySalt on what Lock(key, salt, m) returned, for a salt of either key size
CallLockDeriveKeySalt ==
    /\ probe = NoProbe
    /\ \E g \in OptGenerators, pass \in Passphrases, n \in KeySizes, s \in Salts,
          m \in LockPlaintexts, fill \in ByteFills :
          probe' = [op |-> "DeriveKeySalt", gen |-> g, pass |-> pass,
                    data |-> LockBytes(SaltBytes(n, s), m, fill),
                    locked |-> TRUE, salt |-> SaltBytes(n, s),
                    out |-> DeriveKeySaltBytes(g, pass,
                                               LockBytes(SaltBytes(n, s), m, fill))]
    /\ UNCHANGED <<surKeys, payload, basePass, keyGen, fresh, last, calls>>

DeriveNext ==
    \/ CallDeriveKey
    \/ CallDeriveKeySalt
    \/ CallDeriveSalt
    \/ CallLockDeriveKeySalt

\* the instance of Init without a generator stands by: the calls take the
\* generator as an input
SpecDerive == KeyGenInit /\ [][DeriveNext]_vars

\* the salt a call worked with: the one it returned, or the one inside its key
SaltUsed == IF probe.op = "DeriveKey" THEN probe.out.key.salt ELSE probe.out.salt

\* C34 as stated: each of DeriveKey, DeriveKeySalt and DeriveSalt fails with
\* ErrInvalidData exactly when the blob is no longer than the generator's key
\* size, whatever the passphrase; otherwise it uses the trailing keySize bytes
\* as the salt; and DeriveKeySalt on Lock(key, salt, m) returns the salt that
\* Lock was given.
C34_InvalidDataExactlyWhenShort ==
    probe # NoProbe =>
        /\ probe.out.err = "ErrInvalidData"
              <=> Len(probe.data) <= probe.gen.aesKeySize
        /\ Len(probe.data) > probe.gen.aesKeySize =>
              SaltUsed = TrailingBytes(probe.gen, probe.data)
        /\ probe.locked => probe.out.salt = probe.salt

\* C34: with an empty passphrase DeriveKey and DeriveKeySalt fail with
\* ErrEmptyPassPhrase whatever the length of the blob.  Otherwise each of the
\* three functions fails with ErrInvalidData exactly when the blob is no longer
\* than the generator's key size, and else succeeds with the trailing keySize
\* bytes of the blob as the salt (the key being derived from that salt).
\* DeriveKeySalt on Lock(key, salt, m) returns the salt Lock was given when
\* that salt has keySize bytes.
C34_DeriveUsesTrailingSalt ==
    probe # NoProbe =>
        IF probe.op # "DeriveSalt" /\ Len(probe.pass) = 0
        THEN probe.out.err = "ErrEmptyPassPhrase"
        ELSE /\ probe.out.err = "ErrInvalidData"
                   <=> Len(probe.data) <= probe.gen.aesKeySize
             /\ Len(probe.data) > probe.gen.aesKeySize =>
                   /\ probe.out.err = "nil"
                   /\ SaltUsed = TrailingBytes(probe.gen, probe.data)
                   /\ Len(SaltUsed) = probe.gen.aesKeySize
                   /\ probe.op = "DeriveKey" =>
                         probe.out.key =
                             Stretch(probe.gen, probe.pass,
                                     TrailingBytes(probe.gen, probe.data))
             /\ (probe.locked /\ Len(probe.salt) = probe.gen.aesKeySize) =>
                   /\ probe.out.err = "nil"
                   /\ probe.out.salt = probe.salt

\* DeriveKeySalt took the salt off a blob one byte longer than the key size
C34_Witness ==
    /\ probe # NoProbe
    /\ probe.op = "DeriveKeySalt"
    /\ ~probe.locked
    /\ Len(probe.pass) > 0
    /\ Len(probe.data) = probe.gen.aesKeySize + 1
    /\ probe.out.err = "nil"
    /\ probe.out.salt = SubSeq(probe.data, 2, Len(probe.data))

----------------------------------------------------------------------------
(* Package xor: the screen *)

\* the longest key handed to the package
MaxKeyLen == 3
\* the most bytes screened between two resets
MaxScreened == 7

\* the bytes keys are made of, and the bytes of the data
KeyBytes == {0, 1, 222}
DataBytes == {0, 65}

\* the keys callers present, the empty one among them
XorKeys == UNION {[1..n -> KeyBytes] : n \in 0..MaxKeyLen}

\* offset ...int: no offset, or one, from below the range to above it
OffsetArgs == {<<>>} \cup {<<o>> : o \in -1..(MaxKeyLen + 1)}

\* a ^ b on the bits of two bytes
RECURSIVE BitXor(_, _)
BitXor(a, b) ==
    IF a = 0 /\ b = 0 THEN 0
    ELSE (((a % 2) + (b % 2)) % 2) + (2 * BitXor(a \div 2, b \div 2))

\* the nil *xorScreen returned with an error
NilScreen == [key |-> <<>>, init |-> 0, cur |-> 0]

\* newXorScreen(key, offset...)
newXorScreen(key, offset) ==
    IF Len(key) = 0
    THEN [err |-> "error", scr |-> NilScreen]
    ELSE IF Len(offset) > 0
    THEN IF offset[1] < 0 \/ offset[1] >= Len(key)
         THEN [err |-> "error", scr |-> NilScreen]
         ELSE [err |-> "nil", scr |-> [key |-> key, init |-> offset[1], cur |-> offset[1]]]
    ELSE [err |-> "nil", scr |-> [key |-> key, init |-> 0, cur |-> 0]]

\* screen whose cursor runs on past the end of the key instead of wrapping
screenNoWrap(s, b) ==
    [b |-> BitXor(b, s.key[(s.cur % Len(s.key)) + 1]),
     scr |-> [s EXCEPT !.cur = s.cur + 1]]

\* s.screen(b): the byte returned and the screen afterwards (s.key[s.cur] is
\* the element at 1 + s.cur of the sequence)
screen(s, b) ==
    [b |-> BitXor(b, s.key[s.cur + 1]),
     scr |-> [s EXCEPT !.cur = (s.cur + 1) % Len(s.key)]]

\* s.reset()
reset(s) == [s EXCEPT !.cur = s.init]

\* probe holds the screen under test: the arguments it was made with, the
\* screen, the number of bytes screened since it was made or reset, and the
\* last byte handed to screen with the byte that came back
CallNewXorScreen ==
    /\ probe = NoProbe
    /\ \E key \in XorKeys, offset \in OffsetArgs :
          probe' = [op |-> "newXorScreen", key |-> key, offset |-> offset,
                    err |-> newXorScreen(key, offset).err,
                    scr |-> newXorScreen(key, offset).scr,
                    since |-> 0, in |-> 0, out |-> 0]
    /\ UNCHANGED <<surKeys, payload, basePass, keyGen, fresh, last, calls>>

CallScreen ==
    /\ probe # NoProbe
    /\ probe.err = "nil"
    /\ probe.since < MaxScreened
    /\ \E b \in DataBytes :
          probe' = [probe EXCEPT !.op = "screen",
                                 !.scr = screen(probe.scr, b).scr,
                                 !.since = probe.since + 1,
                                 !.in = b,
                                 !.out = screen(probe.scr, b).b]
    /\ UNCHANGED <<surKeys, payload, basePass, keyGen, fresh, last, calls>>

CallReset ==
    /\ probe # NoProbe
    /\ probe.err = "nil"
    /\ probe' = [probe EXCEPT !.op = "reset", !.scr = reset(probe.scr),
                              !.since = 0]
    /\ UNCHANGED <<surKeys, payload, basePass, keyGen, fresh, last, calls>>

ScreenNext ==
    \/ CallNewXorScreen
    \/ CallScreen
    \/ CallReset

\* the instance of Init without a generator stands by: the screen is an
\* object of its own
SpecScreen == KeyGenInit /\ [][ScreenNext]_vars

\* the offset a screen was asked to start at: the argument, or 0 without one
OffsetOf(offset) == IF Len(offset) > 0 THEN offset[1] ELSE 0

\* C36: newXorScreen returns an error exactly for an empty key and for an
\* offset outside [0, len(key)).  For a screen it accepted, after any screen
\* and reset calls the cursor is within [0, len(key)); the i-th byte (from 0)
\* screened since construction or the last reset came back XORed with
\* key[(offset + i) mod len(key)]; and after reset the cursor is the initial
\* offset.
C36_ScreenCursor ==
    probe # NoProbe =>
        /\ probe.err # "nil"
              <=> \/ Len(probe.key) = 0
                  \/ OffsetOf(probe.offset) < 0
                  \/ OffsetOf(probe.offset) >= Len(probe.key)
        /\ probe.err = "nil" =>
              /\ probe.scr.key = probe.key
              /\ probe.scr.init = OffsetOf(probe.offset)
              /\ probe.scr.cur >= 0
              /\ probe.scr.cur < Len(probe.key)
              /\ probe.op = "newXorScreen" => probe.scr.cur = OffsetOf(probe.offset)
              /\ probe.op = "reset" => probe.scr.cur = OffsetOf(probe.offset)
              /\ probe.op = "screen" =>
                    probe.out =
                        BitXor(probe.in,
                               probe.key[((OffsetOf(probe.offset) + probe.since - 1)
                                              % Len(probe.key)) + 1])

\* a byte screened after the cursor wrapped around the end of the key, on a
\* screen that started at an offset and was reset before
C36_Witness ==
    /\ probe # NoProbe
    /\ probe.op = "screen"
    /\ probe.err = "nil"
    /\ Len(probe.key) = MaxKeyLen
    /\ OffsetOf(probe.offset) = 1
    /\ probe.since = MaxKeyLen + 1
    /\ probe.key[1] # probe.key[2]
    /\ probe.in # probe.out
    /\ probe.scr.cur = 2

----------------------------------------------------------------------------
(* Package xor: Writer and Reader *)

\* the longest byte sequence sent through a Writer
MaxXorData == 3

\* the byte sequences callers send
XorData == UNION {[1..n -> DataBytes] : n \in 0..MaxXorData}

\* the loop of Write and of Read: every byte through screen, in order
RECURSIVE ScreenBytes(_, _)
ScreenBytes(s, bytes) ==
    IF Len(bytes) = 0 THEN [scr |-> s, out |-> <<>>]
    ELSE LET first == screen(s, Head(bytes))
             rest == ScreenBytes(first.scr, Tail(bytes))
         IN [scr |-> rest.scr, out |-> <<first.b>> \o rest.out]

\* Write that starts every call at the initial offset again
WriterWriteRestart(w, target, in) ==
    [scr |-> ScreenBytes(reset(w), in).scr,
     target |-> target \o ScreenBytes(reset(w), in).out]

\* writer.Write(in): the screened bytes are collected in a buffer and handed to
\* the target, a buffer that takes all of them
WriterWrite(w, target, in) ==
    [scr |-> ScreenBytes(w, in).scr,
     target |-> target \o ScreenBytes(w, in).out]

\* reader.Read(out) when the source filled out[:n] with the bytes got
ReaderRead(r, got) == ScreenBytes(r, got)

\* probe holds a Writer and a Reader made with the same key, each with its own
\* offset: data is what the caller sends, sent the number of its bytes written
\* so far, wire the target of the Writer and the source of the Reader, taken
\* the number of bytes of it read so far, got what Read returned so far
CallNewWriterReader ==
    /\ probe = NoProbe
    /\ \E key \in XorKeys, wOff \in OffsetArgs, rOff \in OffsetArgs, data \in XorData :
          /\ newXorScreen(key, wOff).err = "nil"
          /\ newXorScreen(key, rOff).err = "nil"
          /\ probe' = [op |-> "New", key |-> key,
                       w |-> newXorScreen(key, wOff).scr,
                       r |-> newXorScreen(key, rOff).scr,
                       data |-> data, sent |-> 0, wire |-> <<>>, taken |-> 0,
                       got |-> <<>>, writes |-> 0, reads |-> 0]
    /\ UNCHANGED <<surKeys, payload, basePass, keyGen, fresh, last, calls>>

\* Write with the next n bytes of the data
CallWrite ==
    /\ probe # NoProbe
    /\ \E n \in 1..(Len(probe.data) - probe.sent) :
          \E res \in {WriterWrite(probe.w, probe.wire,
                                  SubSeq(probe.data, probe.sent + 1, probe.sent + n))} :
              probe' = [probe EXCEPT !.op = "Write", !.w = res.scr,
                                     !.wire = res.target,
                                     !.sent = probe.sent + n,
                                     !.writes = probe.writes + 1]
    /\ UNCHANGED <<surKeys, payload, basePass, keyGen, fresh, last, calls>>

\* Read into a slice the source fills with the next n bytes it has
CallRead ==
    /\ probe # NoProbe
    /\ \E n \in 1..(Len(probe.wire) - probe.taken) :
          \E res \in {ReaderRead(probe.r,
                                 SubSeq(probe.wire, probe.taken + 1, probe.taken + n))} :
              probe' = [probe EXCEPT !.op = "Read", !.r = res.scr,
                                     !.got = probe.got \o res.out,
                                     !.taken = probe.taken + n,
                                     !.reads = probe.reads + 1]
    /\ UNCHANGED <<surKeys, payload, basePass, keyGen, fresh, last, calls>>

ReadWriteNext ==
    \/ CallNewWriterReader
    \/ CallWrite
    \/ CallRead

\* the instance of Init without a generator stands by: Writer and Reader are
\* objects of their own
SpecReadWrite == KeyGenInit /\ [][ReadWriteNext]_vars

\* some key, two different offsets within it and some data for which screening
\* with the one offset and then with the other gives other bytes than the data
DifferentOffsetGarbles ==
    \E key \in XorKeys, wOff \in OffsetArgs, rOff \in OffsetArgs, data \in XorData :
        /\ newXorScreen(key, wOff).err = "nil"
        /\ newXorScreen(key, rOff).err = "nil"
        /\ newXorScreen(key, wOff).scr.init # newXorScreen(key, rOff).scr.init
        /\ ScreenBytes(newXorScreen(key, rOff).scr,
                       ScreenBytes(newXorScreen(key, wOff).scr, data).out).out # data

\* C35: with a Writer and a Reader made with the same non-empty key and the
\* same offset within it, the bytes Read has returned are the bytes handed to
\* Write, in order, however many bytes each Write and each Read call carried:
\* what was read so far is the beginning of the data, all of it once
\* everything written was read.  With two different offsets there are a key and
\* data that do not come back.
C35_WriterReaderRestores ==
    /\ DifferentOffsetGarbles
    /\ (probe # NoProbe /\ probe.w.init = probe.r.init) =>
          /\ probe.got = SubSeq(probe.data, 1, probe.taken)
          /\ probe.taken <= probe.sent
          /\ Len(probe.wire) = probe.sent
          /\ probe.w.cur = (probe.w.init + probe.sent) % Len(probe.key)
          /\ probe.r.cur = (probe.r.init + probe.taken) % Len(probe.key)

\* all of the data came back after two Write calls and three Read calls, under
\* a key that changes the bytes
C35_Witness ==
    /\ probe # NoProbe
    /\ probe.op = "Read"
    /\ probe.w.init = probe.r.init
    /\ probe.w.init > 0
    /\ Len(probe.data) = MaxXorData
    /\ probe.got = probe.data
    /\ probe.wire # probe.data
    /\ probe.writes = 2
    /\ probe.reads = 3
    /\ probe.w.cur # probe.w.init

----------------------------------------------------------------------------
(* Package xor: GenKey and GenKeyAndOffset *)

\* the sizes of int a build of the package can have, in bits
IntSizes == {32, 64}

\* the bytes rand.Read can put into the four-byte buffer of the offset
RandBufs == [1..4 -> {0, 1, 127, 128, 255}]

\* the lengths callers ask for
GenLengths == -1..MaxKeyLen

\* GenKey(length) when rand.Read fills the key with the byte fill, or fails
GenKey(length, fill, randOk) ==
    IF length = 0 THEN [err |-> "error", key |-> <<>>]
    ELSE IF length < 0 THEN [err |-> "panic", key |-> <<>>]
    ELSE IF ~randOk THEN [err |-> "error", key |-> <<>>]
    ELSE [err |-> "nil", key |-> [i \in 1..length |-> fill]]

\* int(binary.BigEndian.Uint32(buf)) % length for length > 0.  With an int of
\* 64 bits the conversion keeps the value, and the remainder is taken half by
\* half.  With an int of 32 bits a value of 2^31 or more becomes the value less
\* 2^32, and the remainder of a negative dividend is zero or negative.
IntRemainder(buf, length, intSize) ==
    LET \* binary.BigEndian.Uint32(buf) is hi * 65536 + lo
        hi == buf[1] * 256 + buf[2]
        lo == buf[3] * 256 + buf[4]
        v == IF hi >= 32768 THEN (hi - 65536) * 65536 + lo ELSE hi * 65536 + lo
    IN IF intSize = 64
       THEN ((hi % length) * 65536 + lo) % length
       ELSE IF v >= 0 \/ v % length = 0 THEN v % length ELSE (v % length) - length

\* GenKeyAndOffset(length)
GenKeyAndOffset(length, fill, keyRandOk, buf, bufRandOk, intSize) ==
    IF GenKey(length, fill, keyRandOk).err # "nil"
    THEN [err |-> GenKey(length, fill, keyRandOk).err, key |-> <<>>, offset |-> 0]
    ELSE IF ~bufRandOk THEN [err |-> "error", key |-> <<>>, offset |-> 0]
    ELSE [err |-> "nil", key |-> GenKey(length, fill, keyRandOk).key,
          offset |-> IntRemainder(buf, length, intSize)]

CallGenKeyAndOffset ==
    /\ probe = NoProbe
    /\ \E length \in GenLengths, fill \in KeyBytes, keyRandOk \in BOOLEAN,
          buf \in RandBufs, bufRandOk \in BOOLEAN, intSize \in IntSizes :
          probe' = [op |-> "GenKeyAndOffset", length |-> length,
                    randOk |-> keyRandOk /\ bufRandOk, buf |-> buf,
                    intSize |-> intSize,
                    out |-> GenKeyAndOffset(length, fill, keyRandOk, buf,
                                            bufRandOk, intSize),
                    accepted |-> "none"]
    /\ UNCHANGED <<surKeys, payload, basePass, keyGen, fresh, last, calls>>

\* NewWriter or NewReader with the key and the offset that were returned: the
\* error is that of newXorScreen
CallNewWriter ==
    /\ probe # NoProbe
    /\ probe.op = "GenKeyAndOffset"
    /\ probe.out.err = "nil"
    /\ probe' = [probe EXCEPT !.op = "NewWriter",
                              !.accepted =
                                  newXorScreen(probe.out.key,
                                               <<probe.out.offset>>).err]
    /\ UNCHANGED <<surKeys, payload, basePass, keyGen, fresh, last, calls>>

GenKeyNext ==
    \/ CallGenKeyAndOffset
    \/ CallNewWriter

\* the instance of Init without a generator stands by: the functions take all
\* they use as arguments
SpecGenKey == KeyGenInit /\ [][GenKeyNext]_vars

\* C37: while rand.Read works, GenKeyAndOffset(length) for length > 0 returns
\* no error, a key of length bytes and an offset with 0 <= offset < length, and
\* NewWriter and NewReader accept the pair; GenKeyAndOffset(0) returns an error.
C37_GenKeyAndOffsetAccepted ==
    probe # NoProbe =>
        /\ probe.length = 0 => probe.out.err = "error"
        /\ (probe.length > 0 /\ probe.randOk) =>
              /\ probe.out.err = "nil"
              /\ Len(probe.out.key) = probe.length
              /\ probe.out.offset >= 0
              /\ probe.out.offset < probe.length
              /\ probe.op = "NewWriter" => probe.accepted = "nil"

====
